---- MODULE Spec2Model ----
(***************************************************************************)
(* Model of the stipple raster / vector pipeline of                        *)
(* klayout-vector-file-export (src/pymacros).                              *)
(*                                                                         *)
(*   SpecBitmap : Bitmap and its three codecs, panelize (bitmap.py)        *)
(*   SpecCache  : StippleCache.stipple_for_string, its two in-memory       *)
(*                maps, the cache directory and the mkbitmap / potrace     *)
(*                subprocesses (stipple_cache.py, bitmap_vectorizer.py)    *)
(*   SpecCacheConc : the same operations run by two processes at once on   *)
(*                one cache directory                                      *)
(*   SpecSvg    : convert_svg_to_qpainter_paths, the walk over the SVG     *)
(*                tree and the path-data loop (svg_painter.py)             *)
(*   SpecExport : VectorFileExporter.paint_layers, the loop over layers    *)
(*                and shapes and the pages of the PDF                      *)
(*                (vector_file_exporter.py)                                *)
(*                                                                         *)
(* Python strings are sequences of one-character strings, Python bytes     *)
(* are sequences of integers 0..255, a bytearray `data` with 0-based index *)
(* i is the sequence element data[i+1].                                    *)
(***************************************************************************)
EXTENDS Integers, Sequences, FiniteSets, TLC

\* ------------------------------------------------------------------------
\* Bounds of the model
\* ------------------------------------------------------------------------
MaxWidth == 9
MaxHeight == 3
MaxBits == 9
MaxTextLen == 5
MaxTileDim == 3
MaxMin == 4
MaxCmds == 3
MaxComments == 2
MaxIdLen == 4
MaxLayers == 3
MaxShapes == 2

\* ------------------------------------------------------------------------
\* Results of operations that may raise
\* ------------------------------------------------------------------------
EmptyBitmap == [width |-> 0, height |-> 0, data |-> <<>>]

Ok(b) == [ok |-> TRUE, err |-> "", bm |-> b]

Err(e) == [ok |-> FALSE, err |-> e, bm |-> EmptyBitmap]

NoResult == [ok |-> FALSE, err |-> "none", bm |-> EmptyBitmap]

\* ------------------------------------------------------------------------
\* Arithmetic and sequence helpers
\* ------------------------------------------------------------------------
RECURSIVE Pow2(_)
Pow2(n) == IF n = 0 THEN 1 ELSE 2 * Pow2(n - 1)

\* first position of an element of set cs in s, 0 when there is none
RECURSIVE IndexIn(_, _, _)
IndexIn(s, cs, k) ==
    IF k > Len(s) THEN 0
    ELSE IF s[k] \in cs THEN k
    ELSE IndexIn(s, cs, k + 1)

Tail0(s, k) == SubSeq(s, k + 1, Len(s))

RECURSIVE Flatten(_)
Flatten(ss) == IF ss = <<>> THEN <<>> ELSE Head(ss) \o Flatten(Tail(ss))

\* str.strip() / bytes.strip(): drop the whitespace at both ends
RECURSIVE LStrip(_, _)
LStrip(s, ws) ==
    IF s # <<>> /\ Head(s) \in ws THEN LStrip(Tail(s), ws) ELSE s

RECURSIVE RStrip(_, _)
RStrip(s, ws) ==
    IF s # <<>> /\ s[Len(s)] \in ws THEN RStrip(SubSeq(s, 1, Len(s) - 1), ws) ELSE s

Strip(s, ws) == RStrip(LStrip(s, ws), ws)

\* str.split() / bytes.split() without argument: the runs of non-whitespace
RECURSIVE SplitWs(_, _)
SplitWs(s, ws) ==
    LET t == LStrip(s, ws)
        k == IndexIn(t, ws, 1)
    IN  IF t = <<>> THEN <<>>
        ELSE IF k = 0 THEN <<t>>
        ELSE <<SubSeq(t, 1, k - 1)>> \o SplitWs(Tail0(t, k), ws)

\* ------------------------------------------------------------------------
\* Bitmap.panelize
\* ------------------------------------------------------------------------
\* math.ceil(a / b) for integers a >= 0, b > 0
CeilDivFloor(a, b) == a \div b

CeilDiv(a, b) == (a + b - 1) \div b

panelize(self, min_w, min_h) ==
    IF self.width = 0 \/ self.height = 0 THEN EmptyBitmap
    ELSE LET tile_w == self.width
             tile_h == self.height
             nx == CeilDiv(min_w, tile_w)
             ny == CeilDiv(min_h, tile_h)
             panel_w == nx * tile_w
             panel_h == ny * tile_h
         IN  [width |-> panel_w,
              height |-> panel_h,
              data |-> [k \in 1..(panel_w * panel_h) |->
                          LET y == (k - 1) \div panel_w
                              x == (k - 1) % panel_w
                          IN  self.data[(y % tile_h) * tile_w + (x % tile_w) + 1]]]

\* Bitmap.get
get(self, x, y) == self.data[y * self.width + x + 1]

\* a panel that is the tile object itself whenever both have the same size
SharesStorageWhenSameSize(self, min_w, min_h) ==
    /\ panelize(self, min_w, min_h).width = self.width
    /\ panelize(self, min_w, min_h).height = self.height

\* whether the bytearray of the returned panel is the bytearray of the tile:
\* both return statements of panelize build a new bytearray
SharesStorage(self, min_w, min_h) == FALSE

\* the cell index with the roles of x and y exchanged
set_column_major(self, x, y, value) ==
    LET i == (x * self.width) + y
        n == Len(self.data)
    IN  IF i >= n \/ i < 0 - n THEN Err("IndexError")
        ELSE Ok([self EXCEPT !.data[(IF i < 0 THEN i + n ELSE i) + 1] =
                                 IF value # 0 THEN 1 ELSE 0])

\* Bitmap.set: item assignment on the bytearray, the object is changed in
\* place; an index outside -len..len-1 raises IndexError, a negative index
\* counts from the end
set(self, x, y, value) ==
    LET i == (y * self.width) + x
        n == Len(self.data)
    IN  IF i >= n \/ i < 0 - n THEN Err("IndexError")
        ELSE Ok([self EXCEPT !.data[(IF i < 0 THEN i + n ELSE i) + 1] =
                                 IF value # 0 THEN 1 ELSE 0])

\* ------------------------------------------------------------------------
\* KLayout string format
\* ------------------------------------------------------------------------
StrWs == {" ", "\t", "\n", "\r"}

\* str.splitlines(): split at line boundaries, no empty last line
RECURSIVE splitlines(_)
splitlines(s) ==
    LET k == IndexIn(s, {"\n"}, 1)
    IN  IF s = <<>> THEN <<>>
        ELSE IF k = 0 THEN <<s>>
        ELSE <<SubSeq(s, 1, k - 1)>> \o splitlines(Tail0(s, k))

\* the lines trimmed, blank lines kept
KLinesKeepBlank(s) ==
    LET ls == splitlines(s)
    IN  [i \in 1..Len(ls) |-> Strip(ls[i], StrWs)]

KLines(s) ==
    LET ls == splitlines(s)
    IN  SelectSeq([i \in 1..Len(ls) |-> Strip(ls[i], StrWs)], LAMBDA l : l # <<>>)

\* every character other than '*' read as a clear pixel
from_klayout_string_anychar(s) ==
    LET lines == KLines(s)
        width == IF lines = <<>> THEN 0 ELSE Len(lines[1])
        height == Len(lines)
    IN  IF lines = <<>> THEN Ok(EmptyBitmap)
        ELSE IF \E y \in 1..height : Len(lines[y]) # width
        THEN Err("ValueError")
        ELSE Ok([width |-> width, height |-> height,
                 data |-> [k \in 1..(width * height) |->
                             IF lines[(k - 1) \div width + 1][((k - 1) % width) + 1] = "*"
                             THEN 1 ELSE 0]])

from_klayout_string(s) ==
    LET lines == KLines(s)
        width == IF lines = <<>> THEN 0 ELSE Len(lines[1])
        height == Len(lines)
    IN  IF lines = <<>> THEN Ok(EmptyBitmap)
        ELSE IF \E y \in 1..height :
                    \/ Len(lines[y]) # width
                    \/ \E x \in 1..Len(lines[y]) : lines[y][x] \notin {"*", "."}
        THEN Err("ValueError")
        ELSE Ok([width |-> width, height |-> height,
                 data |-> [k \in 1..(width * height) |->
                             IF lines[(k - 1) \div width + 1][((k - 1) % width) + 1] = "*"
                             THEN 1 ELSE 0]])

RECURSIVE JoinLines(_)
JoinLines(ls) ==
    IF ls = <<>> THEN <<>>
    ELSE IF Len(ls) = 1 THEN ls[1]
    ELSE ls[1] \o <<"\n">> \o JoinLines(Tail(ls))

to_klayout_string_inverted(self) ==
    IF self.width = 0 \/ self.height = 0 THEN <<>>
    ELSE JoinLines([y \in 1..self.height |->
                      [x \in 1..self.width |->
                         IF self.data[(y - 1) * self.width + x] # 0 THEN "." ELSE "*"]])

to_klayout_string(self) ==
    IF self.width = 0 \/ self.height = 0 THEN <<>>
    ELSE JoinLines([y \in 1..self.height |->
                      [x \in 1..self.width |->
                         IF self.data[(y - 1) * self.width + x] # 0 THEN "*" ELSE "."]])

\* ------------------------------------------------------------------------
\* PBM (binary, P4) read/write.  A file is the sequence of its bytes.
\* ------------------------------------------------------------------------
NL == 10

ByteWs == {9, 10, 11, 12, 13, 32}

\* f"{n}".encode('ascii') for n >= 0
RECURSIVE DecBytes(_)
DecBytes(n) ==
    IF n < 10 THEN <<48 + n>> ELSE DecBytes(n \div 10) \o <<48 + (n % 10)>>

IsDecBytes(t) == t # <<>> /\ \A i \in 1..Len(t) : t[i] \in 48..57

\* int(token) for a token of decimal digits
RECURSIVE IntOfBytes(_)
IntOfBytes(t) ==
    IF t = <<>> THEN 0
    ELSE 10 * IntOfBytes(SubSeq(t, 1, Len(t) - 1)) + (t[Len(t)] - 48)

\* the same loop without the padding shift of the last partial byte
RECURSIVE PackRowNoPad(_, _, _, _)
PackRowNoPad(row, x, byte, bits_filled) ==
    IF x > Len(row)
    THEN IF bits_filled > 0 THEN <<byte>> ELSE <<>>
    ELSE LET b == (byte * 2) + (row[x] % 2)
         IN  IF bits_filled + 1 = 8
             THEN <<b>> \o PackRowNoPad(row, x + 1, 0, 0)
             ELSE PackRowNoPad(row, x + 1, b, bits_filled + 1)

\* the loop body of to_pbm over one row: byte, bits_filled as in the code
RECURSIVE PackRow(_, _, _, _)
PackRow(row, x, byte, bits_filled) ==
    IF x > Len(row)
    THEN IF bits_filled > 0 THEN <<byte * Pow2(8 - bits_filled)>> ELSE <<>>
    ELSE LET b == (byte * 2) + (row[x] % 2)
         IN  IF bits_filled + 1 = 8
             THEN <<b>> \o PackRow(row, x + 1, 0, 0)
             ELSE PackRow(row, x + 1, b, bits_filled + 1)

RowOf(self, y) == SubSeq(self.data, (y * self.width) + 1, (y + 1) * self.width)

to_pbm(self) ==
    <<80, 52, NL>> \o DecBytes(self.width) \o <<32>> \o DecBytes(self.height) \o <<NL>>
    \o Flatten([y \in 1..self.height |-> PackRow(RowOf(self, y - 1), 1, 0, 0)])

\* f.readline(): [line, rest], the line with its newline; empty at end of file
ReadLine(f) ==
    LET k == IndexIn(f, {NL}, 1)
    IN  IF k = 0 THEN [line |-> f, rest |-> <<>>]
        ELSE [line |-> SubSeq(f, 1, k), rest |-> Tail0(f, k)]

\* a reader without the comment loop
SkipCommentsNever(f) == ReadLine(f)

\* the comment loop of from_pbm: the first line that does not start with '#'
RECURSIVE SkipComments(_)
SkipComments(f) ==
    LET r == ReadLine(f)
    IN  IF r.line # <<>> /\ r.line[1] = 35 THEN SkipComments(r.rest) ELSE r

\* the reader without the test of the magic token
from_pbm_anymagic(file) ==
    LET m == ReadLine(file)
        magic == Strip(m.line, ByteWs)
        c == SkipComments(m.rest)
        first == SplitWs(c.line, ByteWs)
        second == ReadLine(c.rest)
        width_height == IF Len(first) # 2
                        THEN first \o SplitWs(second.line, ByteWs)
                        ELSE first
        body == IF Len(first) # 2 THEN second.rest ELSE c.rest
        width == IntOfBytes(width_height[1])
        height == IntOfBytes(width_height[2])
        row_bytes == (width + 7) \div 8
    IN  IF Len(width_height) # 2 THEN Err("ValueError")
        ELSE IF ~IsDecBytes(width_height[1]) \/ ~IsDecBytes(width_height[2])
        THEN Err("ValueError")
        ELSE IF \E y \in 0..(height - 1) : \E x \in 0..(width - 1) :
                    (y * row_bytes) + (x \div 8) + 1 > Len(body)
        THEN Err("IndexError")
        ELSE Ok([width |-> width, height |-> height,
                 data |-> [k \in 1..(width * height) |->
                             LET y == (k - 1) \div width
                                 x == (k - 1) % width
                                 byte_idx == x \div 8
                                 bit_idx == 7 - (x % 8)
                                 row_byte == body[(y * row_bytes) + byte_idx + 1]
                             IN  IF (row_byte \div Pow2(bit_idx)) % 2 = 1 THEN 1 ELSE 0]])

from_pbm(file) ==
    LET m == ReadLine(file)
        magic == Strip(m.line, ByteWs)
        c == SkipComments(m.rest)
        first == SplitWs(c.line, ByteWs)
        second == ReadLine(c.rest)
        width_height == IF Len(first) # 2
                        THEN first \o SplitWs(second.line, ByteWs)
                        ELSE first
        body == IF Len(first) # 2 THEN second.rest ELSE c.rest
        width == IntOfBytes(width_height[1])
        height == IntOfBytes(width_height[2])
        row_bytes == (width + 7) \div 8
    IN  IF magic # <<80, 52>> THEN Err("ValueError")
        ELSE IF Len(width_height) # 2 THEN Err("ValueError")
        ELSE IF ~IsDecBytes(width_height[1]) \/ ~IsDecBytes(width_height[2])
        THEN Err("ValueError")
        ELSE IF \E y \in 0..(height - 1) : \E x \in 0..(width - 1) :
                    (y * row_bytes) + (x \div 8) + 1 > Len(body)
        THEN Err("IndexError")
        ELSE Ok([width |-> width, height |-> height,
                 data |-> [k \in 1..(width * height) |->
                             LET y == (k - 1) \div width
                                 x == (k - 1) % width
                                 byte_idx == x \div 8
                                 bit_idx == 7 - (x % 8)
                                 row_byte == body[(y * row_bytes) + byte_idx + 1]
                             IN  IF (row_byte \div Pow2(bit_idx)) % 2 = 1 THEN 1 ELSE 0]])

\* ------------------------------------------------------------------------
\* base36 helpers (klayout_plugin_utils.base36): a reversible encoding over
\* the alphabet 0-9a-z; a byte string is written two digits per byte.
\* ------------------------------------------------------------------------
Alphabet == <<"0", "1", "2", "3", "4", "5", "6", "7", "8", "9",
              "a", "b", "c", "d", "e", "f", "g", "h", "i", "j",
              "k", "l", "m", "n", "o", "p", "q", "r", "s", "t",
              "u", "v", "w", "x", "y", "z">>

Base36Chars == {Alphabet[i] : i \in 1..36}

DigitVal(c) == (CHOOSE i \in 1..36 : Alphabet[i] = c) - 1

RECURSIVE int_to_base36(_)
int_to_base36(n) ==
    IF n < 36 THEN <<Alphabet[n + 1]>>
    ELSE int_to_base36(n \div 36) \o <<Alphabet[(n % 36) + 1]>>

IsBase36(s) == \A i \in 1..Len(s) : s[i] \in Base36Chars

RECURSIVE base36_to_int(_)
base36_to_int(s) ==
    IF s = <<>> THEN 0
    ELSE 36 * base36_to_int(SubSeq(s, 1, Len(s) - 1)) + DigitVal(s[Len(s)])

bytes_to_base36(b) ==
    Flatten([i \in 1..Len(b) |-> <<Alphabet[(b[i] \div 36) + 1], Alphabet[(b[i] % 36) + 1]>>])

base36_to_bytes(s) ==
    [i \in 1..(Len(s) \div 2) |-> 36 * DigitVal(s[(2 * i) - 1]) + DigitVal(s[2 * i])]

IsBase36Bytes(s) ==
    /\ IsBase36(s)
    /\ Len(s) % 2 = 0
    /\ \A i \in 1..(Len(s) \div 2) :
          36 * DigitVal(s[(2 * i) - 1]) + DigitVal(s[2 * i]) <= 255

\* ------------------------------------------------------------------------
\* Compact filename
\* ------------------------------------------------------------------------
ByteAt(bits, byte_index, msb) ==
    LET B(j) == IF (8 * byte_index) + j < Len(bits) /\ bits[(8 * byte_index) + j + 1] # 0
                THEN Pow2(IF msb THEN 7 - j ELSE j) ELSE 0
    IN  B(0) + B(1) + B(2) + B(3) + B(4) + B(5) + B(6) + B(7)

\* least significant bit first: the bit order of the writer reversed
bits_to_bytes_lsb(bits) ==
    [k \in 1..((Len(bits) + 7) \div 8) |-> ByteAt(bits, k - 1, FALSE)]

bits_to_bytes(bits) ==
    [k \in 1..((Len(bits) + 7) \div 8) |-> ByteAt(bits, k - 1, TRUE)]

\* raises IndexError when data holds fewer than n_bits bits
BytesToBitsRaises(data, n_bits) == n_bits > 8 * Len(data)

bytes_to_bits(data, n_bits) ==
    [i \in 1..n_bits |->
        LET byte_index == (i - 1) \div 8
            bit_index == 7 - ((i - 1) % 8)
        IN  (data[byte_index + 1] \div Pow2(bit_index)) % 2]

\* the name with the number of cells in place of width and height
to_compact_filename_area(self) ==
    LET a_str == int_to_base36(self.width * self.height)
        packed == bits_to_bytes(self.data)
        data_str == bytes_to_base36(packed)
    IN  a_str \o <<"_">> \o a_str \o <<"_">> \o data_str

to_compact_filename(self) ==
    LET w_str == int_to_base36(self.width)
        h_str == int_to_base36(self.height)
        packed == bits_to_bytes(self.data)
        data_str == bytes_to_base36(packed)
    IN  w_str \o <<"_">> \o h_str \o <<"_">> \o data_str

\* s.split('_', 2): at most three parts, cut at the first two underscores
Split2(s) ==
    LET k1 == IndexIn(s, {"_"}, 1)
        r1 == Tail0(s, k1)
        k2 == IndexIn(r1, {"_"}, 1)
    IN  IF k1 = 0 THEN <<s>>
        ELSE IF k2 = 0 THEN <<SubSeq(s, 1, k1 - 1), r1>>
        ELSE <<SubSeq(s, 1, k1 - 1), SubSeq(r1, 1, k2 - 1), Tail0(r1, k2)>>

\* the body of the try block: the exception raised first, if any
decode_compact_filename(s) ==
    LET parts == Split2(s)
        w_str == parts[1]
        h_str == parts[2]
        data_str == parts[3]
        width == base36_to_int(w_str)
        height == base36_to_int(h_str)
        n_bits == width * height
        packed == base36_to_bytes(data_str)
    IN  IF Len(parts) # 3 THEN Err("ValueError")
        ELSE IF w_str = <<>> \/ h_str = <<>> \/ ~IsBase36(w_str) \/ ~IsBase36(h_str)
        THEN Err("ValueError")
        ELSE IF ~IsBase36Bytes(data_str) THEN Err("ValueError")
        ELSE IF BytesToBitsRaises(packed, n_bits) THEN Err("IndexError")
        ELSE Ok([width |-> width, height |-> height,
                 data |-> bytes_to_bits(packed, n_bits)])

\* a decoder without the except clause
reraise_unchanged(r) == r

\* except Exception as e: raise ValueError(...) from e
raise_ValueError_from(r) == IF r.ok THEN r ELSE Err("ValueError")

from_compact_filename(s) == raise_ValueError_from(decode_compact_filename(s))

\* ------------------------------------------------------------------------
\* State
\* ------------------------------------------------------------------------
VARIABLES
    bmInput,    \* the input drawn for the Bitmap operations
    bm,         \* the Bitmap under test (result of the constructor used)
    bmEnc,      \* the encoded form last written (text, file bytes or file name)
    bmBack,     \* the Bitmap read back from bmEnc
    panel,      \* the result of panelize
    bmOp        \* the last Bitmap operation applied

VARIABLES
    disk,           \* cache directory: stipple id -> state of its directory and files
    svg_cache,      \* per process: StippleCache._svg_cache (stipple string -> svg path)
    stipple_cache,  \* per process: StippleCache._stipple_cache (stipple string -> Stipple)
    pc,             \* per process: position inside stipple_for_string
    call,           \* per process: the call of stipple_for_string in flight
    calls,          \* per process: the last completed calls of this process run
    gwRuns,         \* stipple id -> number of runs of convert_bitmap_to_svg started
    gwOk,           \* stipple ids for which a run of convert_bitmap_to_svg completed
    started         \* number of requests started

VARIABLES
    svgIn,      \* the parsed SVG tree, the progress reporter and the path data
    w,          \* the locals of walk for the node visited
    paths,      \* the list `paths` that walk appends to
    svgOut      \* how convert_svg_to_qpainter_paths ended

VARIABLES
    exIn,       \* the export settings, the number of layers, the progress reporter
    ex,         \* the locals of paint_layers
    pages       \* the pages of the PDF: per page the layers of the shapes drawn on it

bmVars == <<bmInput, bm, bmEnc, bmBack, panel, bmOp>>

cacheVars == <<disk, svg_cache, stipple_cache, pc, call, calls, gwRuns, gwOk, started>>

svgVars == <<svgIn, w, paths, svgOut>>

exportVars == <<exIn, ex, pages>>

vars == <<bmInput, bm, bmEnc, bmBack, panel, bmOp,
          disk, svg_cache, stipple_cache, pc, call, calls, gwRuns, gwOk, started,
          svgIn, w, paths, svgOut,
          exIn, ex, pages>>

\* paint_layers not called
IdleExport ==
    [stage |-> "idle", lyr |-> 0, shapes |-> 0, new_page_needed |-> FALSE,
     found_shapes |-> "unbound", found_shapes_on_layer |-> FALSE]

ExportIdle ==
    /\ exIn = [layer_output_style |-> "none", num_layers |-> 0, reporter |-> FALSE]
    /\ ex = IdleExport
    /\ pages = <<>>

\* ------------------------------------------------------------------------
\* QTransform and QPainterPath as svg_painter.py uses them.  Only translate
\* and scale occur, so a transform is [m11, m22, dx, dy] and maps (x, y) to
\* (m11*x + dx, m22*y + dy).  A path is the sequence of the drawing calls
\* made on it (moveTo, lineTo, cubicTo, closeSubpath) with their points.
\* ------------------------------------------------------------------------
QIdentity == [m11 |-> 1, m22 |-> 1, dx |-> 0, dy |-> 0]

\* t.translate(tx, ty): the translation acts before t
QTranslate(t, tx, ty) == [t EXCEPT !.dx = @ + (tx * t.m11), !.dy = @ + (ty * t.m22)]

\* t.scale(sx, sy): the scaling acts before t
QScale(t, sx, sy) == [t EXCEPT !.m11 = @ * sx, !.m22 = @ * sy]

\* a * b: a point is mapped by a, then by b
QMul(a, b) ==
    [m11 |-> a.m11 * b.m11, m22 |-> a.m22 * b.m22,
     dx |-> (a.dx * b.m11) + b.dx, dy |-> (a.dy * b.m22) + b.dy]

QMapPoint(t, pt) == <<(t.m11 * pt[1]) + t.dx, (t.m22 * pt[2]) + t.dy>>

\* t.map(path)
QMapPath(t, path) ==
    [k \in 1..Len(path) |->
        [op |-> path[k].op,
         pts |-> [j \in 1..Len(path[k].pts) |-> QMapPoint(t, path[k].pts[j])]]]

MoveTo(pt) == [op |-> "MoveTo", pts |-> <<pt>>]

LineTo(pt) == [op |-> "LineTo", pts |-> <<pt>>]

CubicTo(p1, p2, p3) == [op |-> "CubicTo", pts |-> <<p1, p2, p3>>]

Close == [op |-> "Close", pts |-> <<>>]

PtAdd(a, b) == <<a[1] + b[1], a[2] + b[2]>>

\* ------------------------------------------------------------------------
\* parse_svg_transform.  The attribute is given as the (name, values) pairs
\* that _transform_re.findall and the float conversion yield.
\* ------------------------------------------------------------------------
RECURSIVE ApplyTransformOps(_, _)
ApplyTransformOps(t, ops) ==
    IF ops = <<>> THEN [ok |-> TRUE, t |-> t]
    ELSE LET name == ops[1].name
             values == ops[1].values
         IN  IF name = "translate"
             THEN ApplyTransformOps(
                      IF Len(values) = 1 THEN QTranslate(t, values[1], 0)
                      ELSE IF Len(values) >= 2 THEN QTranslate(t, values[1], values[2])
                      ELSE t, Tail(ops))
             ELSE IF name = "scale"
             THEN ApplyTransformOps(
                      IF Len(values) = 1 THEN QScale(t, values[1], values[1])
                      ELSE IF Len(values) >= 2 THEN QScale(t, values[1], values[2])
                      ELSE t, Tail(ops))
             ELSE [ok |-> FALSE, t |-> t]

parse_svg_transform(transform) == ApplyTransformOps(QIdentity, transform)

\* ------------------------------------------------------------------------
\* token_re = [MmLlCcZz]|-?\d+(?:\.\d+)?  and token_re.findall(d)
\* ------------------------------------------------------------------------
CmdLetters == {"M", "m", "L", "l", "C", "c", "Z", "z"}

Digits == {"0", "1", "2", "3", "4", "5", "6", "7", "8", "9"}

\* the last position of the run of digits that starts at position k (k - 1 if none)
RECURSIVE DigitsEnd(_, _)
DigitsEnd(s, k) ==
    IF k <= Len(s) /\ s[k] \in Digits THEN DigitsEnd(s, k + 1) ELSE k - 1

\* the last position of a number matched at position k, 0 if none matches
NumberEnd(s, k) ==
    LET k0 == IF s[k] = "-" THEN k + 1 ELSE k
        e == DigitsEnd(s, k0)
        f == IF e + 1 <= Len(s) /\ s[e + 1] = "." THEN DigitsEnd(s, e + 2) ELSE 0
    IN  IF e < k0 THEN 0
        ELSE IF f >= e + 2 THEN f
        ELSE e

RECURSIVE FindTokens(_, _)
FindTokens(s, k) ==
    IF k > Len(s) THEN <<>>
    ELSE IF s[k] \in CmdLetters THEN <<SubSeq(s, k, k)>> \o FindTokens(s, k + 1)
    ELSE LET e == NumberEnd(s, k)
         IN  IF e = 0 THEN FindTokens(s, k + 1)
             ELSE <<SubSeq(s, k, e)>> \o FindTokens(s, e + 1)

IsCmd(tok) == Len(tok) = 1 /\ tok[1] \in CmdLetters

DigitOf(ch) == CHOOSE v \in 0..9 : Alphabet[v + 1] = ch

RECURSIVE NatOf(_)
NatOf(ds) ==
    IF ds = <<>> THEN 0 ELSE (10 * NatOf(SubSeq(ds, 1, Len(ds) - 1))) + DigitOf(ds[Len(ds)])

\* float(tok) of a number token without fraction
FloatOf(tok) == IF tok[1] = "-" THEN 0 - NatOf(Tail(tok)) ELSE NatOf(tok)

\* float(tokens[i]), ..., float(tokens[i+n-1]) in this order: the first
\* failure is an IndexError past the end or a ValueError on a command letter
RECURSIVE ReadFloats(_, _, _)
ReadFloats(tokens, i, n) ==
    IF n = 0 THEN [err |-> "", vals |-> <<>>]
    ELSE IF i >= Len(tokens) THEN [err |-> "IndexError", vals |-> <<>>]
    ELSE IF IsCmd(tokens[i + 1]) THEN [err |-> "ValueError", vals |-> <<>>]
    ELSE LET r == ReadFloats(tokens, i + 1, n - 1)
         IN  [err |-> r.err, vals |-> <<FloatOf(tokens[i + 1])>> \o r.vals]

\* ------------------------------------------------------------------------
\* convert_svg_to_qpainter_paths: walk over the nodes in document order.
\* Node k of svgIn.nodes has its parent at index .parent (0 for the root).
\* ------------------------------------------------------------------------
NoCmd == "None"

IdleWalk == [stage |-> "idle", node |-> 0, lt |-> <<>>, tokens |-> <<>>, i |-> 0,
             cmd |-> NoCmd, cur |-> <<0, 0>>, start |-> <<0, 0>>, path |-> <<>>]

SvgIdle ==
    /\ svgIn = [nodes |-> <<>>, reporter |-> FALSE]
    /\ w = IdleWalk
    /\ paths = <<>>
    /\ svgOut = "idle"

\* walk(child, local_transform) for the next node, or the return of the function
Advance(ww) ==
    IF ww.node < Len(svgIn.nodes)
    THEN /\ w' = [ww EXCEPT !.stage = "enter", !.node = ww.node + 1]
         /\ svgOut' = svgOut
    ELSE /\ w' = [ww EXCEPT !.stage = "done"]
         /\ svgOut' = "return"

\* the point a command names: relative to cur for a lower-case command
TargetAlwaysRelative(lower, cur, pt) == PtAdd(cur, pt)

Target(lower, cur, pt) == IF lower THEN PtAdd(cur, pt) ELSE pt

\* the transform of the node visited last, whatever its place in the tree
ParentTransformLastVisited(node, lt) ==
    IF lt = <<>> THEN QIdentity ELSE lt[Len(lt)]

\* the argument `transform` of walk: the local_transform of the call that
\* walks the parent (identity for the root)
ParentTransform(node, lt) ==
    IF node.parent = 0 THEN QIdentity ELSE lt[node.parent]

\* the check is made in the first iteration only
was_canceled_consulted_once(reporter, i) == reporter /\ i = 0

\* lines 103-104: with a progress reporter, every iteration asks was_canceled()
was_canceled_consulted(reporter, i) == reporter

\* lines 83-100: the transform of the node, the tokens and the path locals
EnterNode ==
    /\ w.stage = "enter"
    /\ LET node == svgIn.nodes[w.node]
           transform == ParentTransform(node, w.lt)
           local == parse_svg_transform(node.transform)
           local_transform == IF node.transform # <<>> THEN QMul(transform, local.t)
                              ELSE transform
           ww == [w EXCEPT !.lt = Append(@, local_transform)]
       IN  IF node.transform # <<>> /\ ~local.ok
           THEN /\ w' = [w EXCEPT !.stage = "done"]
                /\ svgOut' = "ValueError"
           ELSE IF node.tag = "path"
           THEN /\ w' = [ww EXCEPT !.stage = "loop", !.tokens = FindTokens(node.d, 1),
                                   !.i = 0, !.cmd = NoCmd, !.cur = <<0, 0>>,
                                   !.start = <<0, 0>>, !.path = <<>>]
                /\ svgOut' = svgOut
           ELSE Advance(ww)
    /\ UNCHANGED <<svgIn, paths>>
    /\ UNCHANGED bmVars
    /\ UNCHANGED cacheVars
    /\ UNCHANGED exportVars

\* the command stays what it was after a moveTo
AfterMoveKeep(cmd) == cmd

\* line 122: `cmd = "L" if cmd == "M" else "l"`
AfterMove(cmd) == IF cmd = "M" THEN "L" ELSE "l"

\* the current point stays where the last command left it
AfterCloseKeep(cur, start) == cur

\* line 152: `cur = pya.QPointF(start.x, start.y)`
AfterClose(cur, start) == start

\* one iteration of `while i < len(tokens)`, lines 102-152; in stage "spin"
\* the iterations consume no token and repeat without end, so that only a
\* cancellation changes the state
Step(cancel) ==
    /\ w.stage \in {"loop", "spin"}
    /\ w.i < Len(w.tokens)
    /\ w.stage = "spin" => cancel
    /\ cancel => was_canceled_consulted(svgIn.reporter, w.i)
    /\ LET t == w.tokens[w.i + 1]
           cmd == IF IsCmd(t) THEN t[1] ELSE w.cmd
           i == IF IsCmd(t) THEN w.i + 1 ELSE w.i
           lower == cmd \in {"m", "l", "c"}
           n == IF cmd \in {"M", "m", "L", "l"} THEN 2
                ELSE IF cmd \in {"C", "c"} THEN 6 ELSE 0
           r == ReadFloats(w.tokens, i, n)
           v == r.vals
       IN  IF cancel
           THEN /\ w' = [w EXCEPT !.stage = "done"]
                /\ svgOut' = "ExportCancelledError"
           ELSE IF r.err # ""
           THEN /\ w' = [w EXCEPT !.stage = "done", !.cmd = cmd, !.i = i]
                /\ svgOut' = r.err
           ELSE IF cmd \in {"M", "m"}
           THEN LET c == Target(lower, w.cur, <<v[1], v[2]>>)
                IN  /\ w' = [w EXCEPT !.i = i + 2, !.cur = c, !.start = c,
                                      !.path = Append(@, MoveTo(c)),
                                      !.cmd = AfterMove(cmd)]
                    /\ svgOut' = svgOut
           ELSE IF cmd \in {"L", "l"}
           THEN LET c == Target(lower, w.cur, <<v[1], v[2]>>)
                IN  /\ w' = [w EXCEPT !.i = i + 2, !.cur = c, !.cmd = cmd,
                                      !.path = Append(@, LineTo(c))]
                    /\ svgOut' = svgOut
           ELSE IF cmd \in {"C", "c"}
           THEN LET p1 == Target(lower, w.cur, <<v[1], v[2]>>)
                    p2 == Target(lower, w.cur, <<v[3], v[4]>>)
                    c == Target(lower, w.cur, <<v[5], v[6]>>)
                IN  /\ w' = [w EXCEPT !.i = i + 6, !.cur = c, !.cmd = cmd,
                                      !.path = Append(@, CubicTo(p1, p2, c))]
                    /\ svgOut' = svgOut
           ELSE IF cmd \in {"Z", "z"}
           THEN /\ w' = [w EXCEPT !.i = i, !.cur = AfterClose(w.cur, w.start), !.cmd = cmd,
                                  !.path = Append(@, Close),
                                  !.stage = IF i = w.i THEN "spin" ELSE "loop"]
                /\ svgOut' = svgOut
           ELSE /\ w' = [w EXCEPT !.stage = "spin"]
                /\ svgOut' = svgOut
    /\ UNCHANGED <<svgIn, paths>>
    /\ UNCHANGED bmVars
    /\ UNCHANGED cacheVars
    /\ UNCHANGED exportVars

\* lines 155-159: the loop is left, the composed transform is applied, the
\* path is appended and the children are walked
FinishPath ==
    /\ w.stage = "loop"
    /\ w.i >= Len(w.tokens)
    /\ paths' = Append(paths, QMapPath(w.lt[w.node], w.path))
    /\ Advance(w)
    /\ UNCHANGED svgIn
    /\ UNCHANGED bmVars
    /\ UNCHANGED cacheVars
    /\ UNCHANGED exportVars

\* ------------------------------------------------------------------------
\* StippleCache (stipple_cache.py) over a cache directory shared by processes
\* ------------------------------------------------------------------------
MaxRequests == 3

Procs == {1, 2}

\* the processes of the sequential specification: one process at a time,
\* restarted on the same cache directory
SeqProcs == {1}

\* stipple strings requested: two texts of the same raster, another raster,
\* and a text that is no pattern
CacheStrings == {<<"*">>, <<" ", "*">>, <<".">>, <<"@">>}

StippleId(s) == to_compact_filename(from_klayout_string(s).bm)

Ids == {StippleId(s) : s \in {t \in CacheStrings : from_klayout_string(t).ok}}

NoId == <<>>

\* a file of the directory is "absent", "partial" or "complete"
EmptyDir == [dir |-> FALSE, pbm |-> "absent", pre |-> "absent", svg |-> "absent"]

\* the value convert_svg_to_qpainter_paths returns for the complete artifact
PathsOf(id) == <<"paths", id>>

NoValue == <<>>

Put(f, k, v) == [x \in (DOMAIN f) \cup {k} |-> IF x = k THEN v ELSE f[x]]

\* a call of stipple_for_string: its argument, what it did and how it ended
\* (pre, trace: how mkbitmap and potrace ended in this call; seen: the state
\* of stipple.svg when the call tested its existence)
NoCall == [s |-> <<>>, id |-> NoId, gw |-> FALSE, io |-> FALSE, served |-> "none",
           pre |-> "none", trace |-> "none", seen |-> "none",
           out |-> "none", err |-> "", value |-> NoValue,
           before |-> <<>>, after |-> <<>>]

\* what the cache holds for a key: its files and the in-memory entries of p
KeyState(d, sv, st, s, id) ==
    [files |-> IF id = NoId THEN EmptyDir ELSE d[id],
     svg_entry |-> s \in DOMAIN sv,
     stipple_entry |-> s \in DOMAIN st]

CacheIdle ==
    /\ disk = [id \in Ids |-> EmptyDir]
    /\ svg_cache = [p \in Procs |-> <<>>]
    /\ stipple_cache = [p \in Procs |-> <<>>]
    /\ pc = [p \in Procs |-> "idle"]
    /\ call = [p \in Procs |-> NoCall]
    /\ calls = [p \in Procs |-> <<>>]
    /\ gwRuns = [id \in Ids |-> 0]
    /\ gwOk = {}
    /\ started = 0

BitmapIdle ==
    /\ bmInput = [kind |-> "none", text |-> <<>>, bm |-> EmptyBitmap, min_w |-> 0, min_h |-> 0,
                  x |-> 0, y |-> 0, value |-> 0, comments |-> 0, split |-> FALSE]
    /\ bm = NoResult
    /\ bmEnc = <<>>
    /\ bmBack = NoResult
    /\ panel = NoResult
    /\ bmOp = "none"

CacheInit == CacheIdle /\ BitmapIdle /\ SvgIdle /\ ExportIdle

\* the last two completed calls are kept
Logged(log, rec) == IF Len(log) < 2 THEN Append(log, rec) ELSE <<log[2], rec>>

\* the call of process p ends: it returns `value` or raises `err`
Finish(p, c, out, err, value, d, sv, st) ==
    /\ calls' = [calls EXCEPT ![p] =
                   Logged(@, [c EXCEPT !.out = out, !.err = err, !.value = value,
                                       !.after = KeyState(d, sv, st, c.s, c.id)])]
    /\ call' = [call EXCEPT ![p] = NoCall]
    /\ pc' = [pc EXCEPT ![p] = "idle"]

\* stipple_cache.py:84 passes one argument to convert_svg_to_qpainter_paths,
\* svg_painter.py:64 declares two parameters without default
ConvertArgsGiven == 1

ConvertArgsRequired == 2

\* the outcome of `convert_svg_to_qpainter_paths(svg_path)` as called by
\* _painter_paths_for_stipple, for an artifact in state `svg`
ConvertCall(id, svg) ==
    IF ConvertArgsGiven < ConvertArgsRequired THEN [out |-> "raise", err |-> "TypeError", value |-> NoValue]
    ELSE IF svg = "complete" THEN [out |-> "return", err |-> "", value |-> PathsOf(id)]
    ELSE [out |-> "raise", err |-> "ParseError", value |-> NoValue]

\* stipple_for_string up to its first access to the cache directory
Request(p, s) ==
    /\ pc[p] = "idle"
    /\ started < MaxRequests
    /\ started' = started + 1
    /\ LET bitmap == from_klayout_string(s)
           id == IF bitmap.ok THEN StippleId(s) ELSE NoId
           c == [NoCall EXCEPT !.s = s, !.id = id,
                    !.before = KeyState(disk, svg_cache[p], stipple_cache[p], s, id)]
       IN  IF s \in DOMAIN stipple_cache[p]
           THEN /\ Finish(p, [c EXCEPT !.served = "memory"], "return", "",
                          stipple_cache[p][s], disk, svg_cache[p], stipple_cache[p])
           ELSE IF ~bitmap.ok
           THEN /\ Finish(p, c, "raise", bitmap.err, NoValue,
                          disk, svg_cache[p], stipple_cache[p])
           ELSE IF s \in DOMAIN svg_cache[p]
           THEN /\ call' = [call EXCEPT ![p] = [c EXCEPT !.served = "svg_cache"]]
                /\ pc' = [pc EXCEPT ![p] = "convert"]
                /\ UNCHANGED calls
           ELSE /\ call' = [call EXCEPT ![p] = c]
                /\ pc' = [pc EXCEPT ![p] = "exists"]
                /\ UNCHANGED calls
    /\ UNCHANGED <<disk, svg_cache, stipple_cache, gwRuns, gwOk>>
    /\ UNCHANGED bmVars
    /\ UNCHANGED svgVars
    /\ UNCHANGED exportVars

\* a cache that never finds the persisted artifact
SvgPersistedNever(files) == FALSE

\* `svg_path.exists() and svg_path.is_file()`: a file of any content is there
SvgPersisted(files) == files.svg # "absent"

\* `if not svg_path.exists() or not svg_path.is_file()`
CheckExists(p) ==
    /\ pc[p] = "exists"
    /\ LET c == call[p]
       IN  IF SvgPersisted(disk[c.id])
           THEN /\ svg_cache' = [svg_cache EXCEPT ![p] = Put(@, c.s, c.id)]
                /\ call' = [call EXCEPT ![p] = [c EXCEPT !.io = TRUE, !.served = "disk",
                                                         !.seen = disk[c.id].svg]]
                /\ pc' = [pc EXCEPT ![p] = "convert"]
           ELSE /\ call' = [call EXCEPT ![p] = [c EXCEPT !.io = TRUE, !.seen = disk[c.id].svg]]
                /\ pc' = [pc EXCEPT ![p] = "mkdir"]
                /\ UNCHANGED svg_cache
    /\ UNCHANGED <<disk, stipple_cache, calls, gwRuns, gwOk, started>>
    /\ UNCHANGED bmVars
    /\ UNCHANGED svgVars
    /\ UNCHANGED exportVars

\* stipple_dir.mkdir(parents=True, exist_ok=True)
Mkdir(p) ==
    /\ pc[p] = "mkdir"
    /\ disk' = [disk EXCEPT ![call[p].id].dir = TRUE]
    /\ pc' = [pc EXCEPT ![p] = "to_pbm"]
    /\ UNCHANGED <<svg_cache, stipple_cache, call, calls, gwRuns, gwOk, started>>
    /\ UNCHANGED bmVars
    /\ UNCHANGED svgVars
    /\ UNCHANGED exportVars

\* bitmap.to_pbm(bmp_path): the file is written, or the write fails part-way
WritePbm(p, ok) ==
    /\ pc[p] = "to_pbm"
    /\ IF ok
       THEN /\ disk' = [disk EXCEPT ![call[p].id].pbm = "complete"]
            /\ pc' = [pc EXCEPT ![p] = "mkbitmap"]
            /\ UNCHANGED <<call, calls>>
       ELSE /\ disk' = [disk EXCEPT ![call[p].id].pbm = "partial"]
            /\ Finish(p, call[p], "raise", "OSError", NoValue,
                      disk', svg_cache[p], stipple_cache[p])
    /\ UNCHANGED <<svg_cache, stipple_cache, gwRuns, gwOk, started>>
    /\ UNCHANGED bmVars
    /\ UNCHANGED svgVars
    /\ UNCHANGED exportVars

GatewayOutcomes == {"ok", "missing", "exit_nonzero"}

GatewayError(o) == IF o = "missing" THEN "FileNotFoundError" ELSE "CalledProcessError"

\* subprocess.run without check=True: a non-zero exit status is not raised
GatewayRaisesOnlyMissing(o) == o = "missing"

\* subprocess.run(cmd, check=True) raises unless the process exits with 0
GatewayRaises(o) == o # "ok"

\* convert_bitmap_to_svg, first stage: subprocess.run(mkbitmap_cmd, check=True)
Mkbitmap(p, o) ==
    /\ pc[p] = "mkbitmap"
    /\ gwRuns' = [gwRuns EXCEPT ![call[p].id] = @ + 1]
    /\ disk' = [disk EXCEPT ![call[p].id].pre =
                   IF o = "ok" THEN "complete" ELSE IF o = "missing" THEN @ ELSE "partial"]
    /\ IF ~GatewayRaises(o)
       THEN /\ call' = [call EXCEPT ![p].gw = TRUE, ![p].pre = o]
            /\ pc' = [pc EXCEPT ![p] = "potrace"]
            /\ UNCHANGED calls
       ELSE Finish(p, [call[p] EXCEPT !.gw = TRUE, !.pre = o], "raise", GatewayError(o), NoValue,
                   disk', svg_cache[p], stipple_cache[p])
    /\ UNCHANGED <<svg_cache, stipple_cache, gwOk, started>>
    /\ UNCHANGED bmVars
    /\ UNCHANGED svgVars
    /\ UNCHANGED exportVars

\* convert_bitmap_to_svg, second stage: subprocess.run(potrace_cmd, check=True)
\* starts potrace, which opens stipple.svg for writing (o: how it will end);
\* a missing executable raises at once
Potrace(p, o) ==
    /\ pc[p] = "potrace"
    /\ IF o = "missing"
       THEN /\ Finish(p, [call[p] EXCEPT !.trace = o], "raise", GatewayError(o), NoValue,
                      disk, svg_cache[p], stipple_cache[p])
            /\ UNCHANGED disk
       ELSE /\ disk' = [disk EXCEPT ![call[p].id].svg = "partial"]
            /\ call' = [call EXCEPT ![p].trace = o]
            /\ pc' = [pc EXCEPT ![p] = "tracing"]
            /\ UNCHANGED calls
    /\ UNCHANGED <<svg_cache, stipple_cache, gwRuns, gwOk, started>>
    /\ UNCHANGED bmVars
    /\ UNCHANGED svgVars
    /\ UNCHANGED exportVars

\* potrace exits: with status 0 the artifact is complete; then
\* `self._svg_cache[stipple_string] = svg_path` (stipple_cache.py:79)
PotraceExit(p) ==
    /\ pc[p] = "tracing"
    /\ LET o == call[p].trace
       IN  /\ disk' = [disk EXCEPT ![call[p].id].svg = IF o = "ok" THEN "complete" ELSE @]
           /\ gwOk' = IF o = "ok" THEN gwOk \cup {call[p].id} ELSE gwOk
           /\ IF ~GatewayRaises(o)
              THEN /\ svg_cache' = [svg_cache EXCEPT ![p] = Put(@, call[p].s, call[p].id)]
                   /\ call' = [call EXCEPT ![p].served = "gateway"]
                   /\ pc' = [pc EXCEPT ![p] = "convert"]
                   /\ UNCHANGED calls
              ELSE /\ Finish(p, call[p], "raise", GatewayError(o), NoValue,
                             disk', svg_cache[p], stipple_cache[p])
                   /\ UNCHANGED svg_cache
    /\ UNCHANGED <<stipple_cache, gwRuns, started>>
    /\ UNCHANGED bmVars
    /\ UNCHANGED svgVars
    /\ UNCHANGED exportVars

\* _painter_paths_for_stipple line 84, then stipple_for_string lines 95-98
Convert(p) ==
    /\ pc[p] = "convert"
    /\ LET c == call[p]
           r == ConvertCall(c.id, disk[c.id].svg)
           stipple == [stipple_string |-> c.s,
                       bitmap |-> from_klayout_string(c.s).bm,
                       painter_paths |-> r.value]
       IN  IF r.out = "return"
           THEN /\ stipple_cache' = [stipple_cache EXCEPT ![p] = Put(@, c.s, stipple)]
                /\ Finish(p, c, "return", "", stipple,
                          disk, svg_cache[p], stipple_cache'[p])
           ELSE /\ Finish(p, c, "raise", r.err, NoValue,
                          disk, svg_cache[p], stipple_cache[p])
                /\ UNCHANGED stipple_cache
    /\ UNCHANGED <<disk, svg_cache, gwRuns, gwOk, started>>
    /\ UNCHANGED bmVars
    /\ UNCHANGED svgVars
    /\ UNCHANGED exportVars

\* the process ends and a new one starts on the same cache directory
Restart(p) ==
    /\ pc[p] = "idle"
    /\ svg_cache[p] # <<>> \/ stipple_cache[p] # <<>> \/ calls[p] # <<>>
    /\ svg_cache' = [svg_cache EXCEPT ![p] = <<>>]
    /\ stipple_cache' = [stipple_cache EXCEPT ![p] = <<>>]
    /\ calls' = [calls EXCEPT ![p] = <<>>]
    /\ UNCHANGED <<disk, pc, call, gwRuns, gwOk, started>>
    /\ UNCHANGED bmVars
    /\ UNCHANGED svgVars
    /\ UNCHANGED exportVars

CacheNext ==
    \/ \E p \in SeqProcs, s \in CacheStrings : Request(p, s)
    \/ \E p \in SeqProcs : CheckExists(p)
    \/ \E p \in SeqProcs : Mkdir(p)
    \/ \E p \in SeqProcs, ok \in BOOLEAN : WritePbm(p, ok)
    \/ \E p \in SeqProcs, o \in GatewayOutcomes : Mkbitmap(p, o)
    \/ \E p \in SeqProcs, o \in GatewayOutcomes : Potrace(p, o)
    \/ \E p \in SeqProcs : PotraceExit(p)
    \/ \E p \in SeqProcs : Convert(p)
    \/ \E p \in SeqProcs : Restart(p)

SpecCache == CacheInit /\ [][CacheNext]_vars

\* two processes at once on one cache directory, asking for texts of the
\* same raster: every interleaving of their steps
ConcStrings == {<<"*">>, <<" ", "*">>}

MaxConcRequests == 2

ConcNext ==
    \/ \E p \in Procs, s \in ConcStrings : started < MaxConcRequests /\ Request(p, s)
    \/ \E p \in Procs : CheckExists(p)
    \/ \E p \in Procs : Mkdir(p)
    \/ \E p \in Procs, ok \in BOOLEAN : WritePbm(p, ok)
    \/ \E p \in Procs, o \in GatewayOutcomes : Mkbitmap(p, o)
    \/ \E p \in Procs, o \in GatewayOutcomes : Potrace(p, o)
    \/ \E p \in Procs : PotraceExit(p)
    \/ \E p \in Procs : Convert(p)

SpecCacheConc == CacheInit /\ [][ConcNext]_vars

\* ------------------------------------------------------------------------
\* Claims about StippleCache
\* ------------------------------------------------------------------------
EnvErrors == {"OSError", "FileNotFoundError", "CalledProcessError"}

\* C1: over any sequence of requests (one process, process runs sharing the
\* cache directory, pattern texts of the same raster) no run of the gateway
\* is started for a key once a run for that key has completed successfully.
C1_GatewayOncePerKey ==
    [][\A id \in Ids : id \in gwOk => gwRuns'[id] = gwRuns[id]]_vars

C1_Witness ==
    \E p \in SeqProcs :
        /\ Len(calls[p]) >= 1
        /\ LET c == calls[p][Len(calls[p])]
           IN  /\ c.s = <<" ", "*">>
               /\ c.id \in gwOk
               /\ c.served = "disk"
               /\ ~c.gw
               /\ gwRuns[c.id] = 1
               /\ DOMAIN svg_cache[p] = {c.s}

\* C2: two successive calls of one process with the same pattern invoke the
\* gateway at most once, and the second is served from the in-memory entry,
\* without file access or gateway call, with the result of the first
\* (stated for a valid pattern whose first call met no failure of the file
\* system or of the gateway).
C2_CacheIdempotence ==
    \A p \in SeqProcs :
        (/\ Len(calls[p]) = 2
         /\ calls[p][1].s = calls[p][2].s
         /\ calls[p][1].id # NoId
         /\ calls[p][1].err \notin EnvErrors)
            => (/\ ~(calls[p][1].gw /\ calls[p][2].gw)
                /\ calls[p][2].served = "memory"
                /\ ~calls[p][2].io /\ ~calls[p][2].gw
                /\ calls[p][2].out = "return"
                /\ calls[p][2].value = calls[p][1].value)

\* C7: a request that fails leaves the cache as it was before the request:
\* no in-memory entry of any kind and no file or directory for the key.
C7_FailureLeavesNoTrace ==
    \A p \in SeqProcs : \A i \in 1..Len(calls[p]) :
        calls[p][i].out = "raise" => calls[p][i].after = calls[p][i].before

\* C8: after a failed request the key is not stuck - the next request for
\* the key runs the pipeline again and, while no gateway run for the key has
\* completed successfully, invokes the gateway again (unless the request
\* ends before it gets there, at the raster write).
C8_FailedKeyRetries ==
    \A p \in SeqProcs :
        (/\ Len(calls[p]) = 2
         /\ calls[p][1].id # NoId
         /\ calls[p][1].id = calls[p][2].id
         /\ calls[p][1].out = "raise"
         /\ calls[p][2].id \notin gwOk
         /\ calls[p][2].err # "OSError")
            => calls[p][2].gw

\* ------------------------------------------------------------------------
\* SpecSvg: inputs.  The path data of a node is written out from a list of
\* command groups (a command letter, or none, and the numbers after it).
\* ------------------------------------------------------------------------
RECURSIVE DecChars(_)
DecChars(n) ==
    IF n < 0 THEN <<"-">> \o DecChars(0 - n)
    ELSE IF n < 10 THEN <<Alphabet[n + 1]>>
    ELSE DecChars(n \div 10) \o <<Alphabet[(n % 10) + 1]>>

RECURSIVE JoinWith(_, _)
JoinWith(ss, sep) ==
    IF ss = <<>> THEN <<>>
    ELSE IF Len(ss) = 1 THEN ss[1]
    ELSE ss[1] \o sep \o JoinWith(Tail(ss), sep)

GroupText(g, style) ==
    LET letter == IF g.cmd = "" THEN <<>> ELSE <<<<g.cmd>>>>
        nums == [k \in 1..Len(g.nums) |-> DecChars(g.nums[k])]
    IN  IF style = "spaced" THEN JoinWith(letter \o nums, <<" ">>)
        ELSE Flatten(letter) \o JoinWith(nums, <<",">>)

PathData(groups, style) ==
    JoinWith([k \in 1..Len(groups) |-> GroupText(groups[k], style)],
             IF style = "spaced" THEN <<" ">> ELSE <<>>)

G(c, nums) == [cmd |-> c, nums |-> nums]

AbsGroups ==
    {G("M", <<0, 0>>), G("M", <<10, 0>>), G("L", <<10, 0>>), G("Z", <<>>)}

PathGroups ==
    AbsGroups
    \cup {G("m", <<5, 5>>), G("l", <<5, 5>>), G("z", <<>>)}
    \cup {G("C", <<1, 2, 3, 4, 5, 6>>), G("c", <<1, 2, 3, 4, 5, 6>>)}
    \cup {G("", <<-5, 5>>), G("M", <<7>>), G("L", <<>>)}

GroupLists == UNION {[1..n -> PathGroups] : n \in 0..MaxCmds}

Op(name, values) == [name |-> name, values |-> values]

TransformAttrs ==
    {<<>>,
     <<Op("translate", <<10, 20>>)>>,
     <<Op("scale", <<2>>)>>,
     <<Op("translate", <<3>>)>>,
     <<Op("translate", <<0, 16>>), Op("scale", <<1, -1>>)>>,
     <<Op("rotate", <<90>>)>>}

Node(tag, parent, transform, groups, style) ==
    [tag |-> tag, parent |-> parent, transform |-> transform,
     groups |-> groups, d |-> PathData(groups, style)]

SimplePath == <<G("M", <<0, 0>>), G("L", <<5, 5>>)>>

\* a single path element with arbitrary path data
PathInputs ==
    {[nodes |-> <<Node("path", 0, <<>>, gs, sr[1])>>, reporter |-> sr[2]] :
        gs \in GroupLists,
        sr \in {<<"spaced", FALSE>>, <<"compact", FALSE>>, <<"spaced", TRUE>>}}

\* nested and sibling elements with transforms around simple paths
TreeInputs ==
    {[nodes |-> <<Node("g", 0, t1, <<>>, "spaced"),
                  Node("path", 1, t2, SimplePath, "spaced")>>,
      reporter |-> FALSE] : t1 \in TransformAttrs, t2 \in TransformAttrs}
    \cup
    {[nodes |-> <<Node("g", 0, t1, <<>>, "spaced"),
                  Node("g", 1, t2, <<>>, "spaced"),
                  Node("path", 2, t3, SimplePath, "spaced")>>,
      reporter |-> FALSE] :
        t1 \in TransformAttrs, t2 \in TransformAttrs, t3 \in TransformAttrs}
    \cup
    {[nodes |-> <<Node("svg", 0, <<>>, <<>>, "spaced"),
                  Node("g", 1, t1, <<>>, "spaced"),
                  Node("path", 2, t2, SimplePath, "spaced"),
                  Node("path", 1, t3, SimplePath, "spaced")>>,
      reporter |-> FALSE] :
        t1 \in TransformAttrs, t2 \in TransformAttrs, t3 \in TransformAttrs}

\* a path element with a child path and a following sibling
SiblingInputs ==
    {[nodes |-> <<Node("svg", 0, <<>>, <<>>, "spaced"),
                  Node("path", 1, t1, SimplePath, "spaced"),
                  Node("path", 2, t2, SimplePath, "spaced"),
                  Node("path", 1, t3, SimplePath, "spaced")>>,
      reporter |-> FALSE] :
        t1 \in TransformAttrs, t2 \in TransformAttrs, t3 \in TransformAttrs}

\* two paths walked with a progress reporter
CancelInputs ==
    {[nodes |-> <<Node("svg", 0, <<>>, <<>>, "spaced"),
                  Node("path", 1, t1, SimplePath, "spaced"),
                  Node("path", 1, <<>>, gs, "spaced")>>,
      reporter |-> TRUE] :
        t1 \in {<<>>, <<Op("scale", <<2>>)>>},
        gs \in {SimplePath, <<>>, <<G("M", <<0, 0>>), G("", <<-5, 5>>), G("Z", <<>>)>>}}

\* path data with implicit repeats, with commands after a close, and the
\* malformed strings '10 20', 'M 0 0 Z 5 5', 'M 0', 'C 1 2 3 4', 'M L 1 2'
RepeatPaths ==
    {<<G("M", <<0, 0>>), G("", <<1, 1>>), G("", <<2, 3>>)>>,
     <<G("m", <<1, 1>>), G("", <<2, 2>>), G("", <<3, 4>>)>>,
     <<G("M", <<1, 1>>), G("L", <<2, 2>>), G("", <<3, 4>>)>>,
     <<G("M", <<1, 1>>), G("l", <<2, 2>>), G("", <<3, 4>>)>>,
     <<G("M", <<1, 1>>), G("C", <<1, 2, 3, 4, 5, 6>>), G("", <<7, 8, 9, 10, 11, 12>>)>>,
     <<G("M", <<1, 1>>), G("c", <<1, 2, 3, 4, 5, 6>>), G("", <<7, 8, 9, 10, 11, 12>>)>>,
     <<G("M", <<1, 1>>), G("", <<2, 2>>), G("m", <<3, 3>>), G("", <<4, 5>>)>>}

ClosePaths ==
    {<<G("M", <<10, 0>>), G("l", <<5, 5>>), G("Z", <<>>), G("l", <<5, 5>>)>>,
     <<G("M", <<10, 0>>), G("L", <<7, 7>>), G("z", <<>>), G("c", <<1, 2, 3, 4, 5, 6>>)>>,
     <<G("m", <<10, 0>>), G("l", <<5, 5>>), G("m", <<1, 1>>), G("l", <<2, 2>>), G("Z", <<>>),
       G("m", <<1, 1>>)>>,
     <<G("l", <<5, 5>>), G("Z", <<>>), G("l", <<1, 1>>)>>}

MalformedPaths ==
    {<<G("", <<10, 20>>)>>,
     <<G("M", <<0, 0>>), G("Z", <<>>), G("", <<5, 5>>)>>,
     <<G("M", <<0>>)>>,
     <<G("C", <<1, 2, 3, 4>>)>>,
     <<G("M", <<>>), G("L", <<1, 2>>)>>}

ExampleInputs ==
    {[nodes |-> <<Node("path", 0, <<>>, gs, style)>>, reporter |-> FALSE] :
        gs \in RepeatPaths \cup ClosePaths \cup MalformedPaths,
        style \in {"spaced"}}

SvgInputs ==
    PathInputs \cup TreeInputs \cup SiblingInputs \cup CancelInputs \cup ExampleInputs

SvgInit ==
    /\ svgIn \in SvgInputs
    /\ w = [IdleWalk EXCEPT !.stage = "enter", !.node = 1]
    /\ paths = <<>>
    /\ svgOut = "running"
    /\ CacheIdle
    /\ BitmapIdle
    /\ ExportIdle

SvgNext ==
    \/ EnterNode
    \/ \E cancel \in BOOLEAN : Step(cancel)
    \/ FinishPath

SpecSvg == SvgInit /\ [][SvgNext]_vars

\* ------------------------------------------------------------------------
\* Claims about the path parser
\* ------------------------------------------------------------------------
PathNodes == SelectSeq([k \in 1..Len(svgIn.nodes) |-> k],
                       LAMBDA k : svgIn.nodes[k].tag = "path")

IsAbsGroup(g) ==
    \/ g.cmd \in {"M", "L"} /\ Len(g.nums) = 2
    \/ g.cmd = "Z" /\ g.nums = <<>>

AllAbs(groups) == \A k \in 1..Len(groups) : IsAbsGroup(groups[k])

\* the segment an absolute command stands for
SegmentOf(g) ==
    IF g.cmd = "M" THEN MoveTo(<<g.nums[1], g.nums[2]>>)
    ELSE IF g.cmd = "L" THEN LineTo(<<g.nums[1], g.nums[2]>>)
    ELSE Close

\* SVG: in a transform list the rightmost transform acts on the point first
RECURSIVE SvgApply(_, _)
SvgApply(ops, pt) ==
    IF ops = <<>> THEN pt
    ELSE LET q == SvgApply(Tail(ops), pt)
             v == ops[1].values
         IN  IF ops[1].name = "translate"
             THEN <<q[1] + v[1], q[2] + (IF Len(v) >= 2 THEN v[2] ELSE 0)>>
             ELSE <<q[1] * v[1], q[2] * (IF Len(v) >= 2 THEN v[2] ELSE v[1])>>

\* the node's own transform first, then each ancestor's, innermost first
RECURSIVE World(_, _)
World(n, pt) ==
    LET q == SvgApply(svgIn.nodes[n].transform, pt)
    IN  IF svgIn.nodes[n].parent = 0 THEN q ELSE World(svgIn.nodes[n].parent, q)

WorldPath(n) ==
    LET gs == svgIn.nodes[n].groups
    IN  [k \in 1..Len(gs) |->
            LET seg == SegmentOf(gs[k])
            IN  [op |-> seg.op, pts |-> [j \in 1..Len(seg.pts) |-> World(n, seg.pts[j])]]]

\* C9: transform composition - every point of a path is mapped by the
\* node's own transform first and then by each ancestor's transform from the
\* innermost to the outermost (parent o local, identity where absent).
C9_TransformComposition ==
    (svgOut = "return" /\ \A k \in 1..Len(PathNodes) : AllAbs(svgIn.nodes[PathNodes[k]].groups))
        => /\ Len(paths) = Len(PathNodes)
           /\ \A k \in 1..Len(PathNodes) : paths[k] = WorldPath(PathNodes[k])

\* C10: parser correctness for absolute commands - a command string of
\* M x y, L x y and Z commands with complete pairs yields, under the
\* identity transform, one segment per command in order: MoveTo(x, y),
\* LineTo(x, y), Close.
IsAbsIdentityInput ==
    /\ Len(svgIn.nodes) = 1
    /\ svgIn.nodes[1].tag = "path"
    /\ svgIn.nodes[1].transform = <<>>
    /\ AllAbs(svgIn.nodes[1].groups)

C10_AbsoluteCommands ==
    IsAbsIdentityInput
        => /\ svgOut \in {"running", "return", "ExportCancelledError"}
           /\ w.stage # "spin"
           /\ svgOut = "return" =>
                 paths = <<[k \in 1..Len(svgIn.nodes[1].groups) |->
                              SegmentOf(svgIn.nodes[1].groups[k])]>>

C10_Witness ==
    /\ svgOut = "return"
    /\ svgIn.nodes[1].d = <<"M", " ", "0", " ", "0", " ", "L", " ", "1", "0", " ", "0", " ", "Z">>
    /\ paths = <<<<MoveTo(<<0, 0>>), LineTo(<<10, 0>>), Close>>>>

\* ------------------------------------------------------------------------
\* SpecBitmap: inputs
\* ------------------------------------------------------------------------
RasterDims(maxw, maxh) ==
    {d \in (0..maxw) \X (0..maxh) : d[1] * d[2] <= MaxBits}

RastersOf(dims) ==
    UNION {[width : {d[1]}, height : {d[2]}, data : [1..(d[1] * d[2]) -> {0, 1}]] : d \in dims}

Rasters == RastersOf(RasterDims(MaxWidth, MaxHeight))

Tiles == RastersOf(RasterDims(MaxTileDim, MaxTileDim))

TextAlphabet == {"*", ".", "\n", " ", "@"}

\* the texts of test_invalid_character and test_inconsistent_width
ExampleTexts ==
    {<<".", "*", "@", "\n", "*", "*", "*">>,
     <<"*", "*", ".", "\n", "*", "*", "*", "*">>}

Texts == UNION {[1..n -> TextAlphabet] : n \in 0..MaxTextLen} \cup ExampleTexts

\* PBM files: a first line and what follows it
PbmFirstLines ==
    {<<80, 52, NL>>, <<80, 52>>, <<32, 80, 52, 32, NL>>, <<80, 49, NL>>,
     <<80, 53, NL>>, <<80, 52, 52, NL>>, <<112, 52, NL>>, <<NL>>, <<>>}

PbmRests ==
    {<<>>, <<49, 32, 49, NL, 128>>, <<49, 32, 49, NL>>,
     <<35, 99, NL, 49, 32, 49, NL, 0>>, <<49, NL, 50, NL, 128, 0>>,
     <<120, 32, 49, NL, 128>>, <<57, 32, 49, NL, 255, 128>>}

PbmFiles == {f[1] \o f[2] : f \in PbmFirstLines \X PbmRests}

\* n comment lines of a PBM header, each "# c"
RECURSIVE CommentLines(_)
CommentLines(n) == IF n = 0 THEN <<>> ELSE <<35, 32, 99, NL>> \o CommentLines(n - 1)

\* a P4 file with the rows of to_pbm and another header layout: comment lines
\* after the magic line, width and height on one line or on two
PbmWithHeader(self, comments, split) ==
    <<80, 52, NL>> \o CommentLines(comments)
    \o DecBytes(self.width) \o (IF split THEN <<NL>> ELSE <<32>>)
    \o DecBytes(self.height) \o <<NL>>
    \o Flatten([y \in 1..self.height |-> PackRow(RowOf(self, y - 1), 1, 0, 0)])

\* strings handed to from_compact_filename: short strings over digits, the
\* delimiter and characters outside 0-9a-z, and longer ids with too few bits
IdStrings ==
    UNION {[1..n -> {"0", "2", "z", "_", "A"}] : n \in 0..MaxIdLen}
    \cup {<<"3", "_", "3", "_", "2", "s">>, <<"2", "_", "2", "_", "2", "s">>,
          <<"1", "_", "1", "_", "0", "_", "0">>, <<"1", "_", "1", "_", "3", "k", "_">>,
          <<"2", "_", "5", "_", "7", "3">>, <<"1", "_", "1", "_", "3", "K">>}

\* the values passed to Bitmap.set: falsy, 1, another truthy value
SetValues == {0, 1, 2}

BitmapInputs ==
    [kind : {"text"}, text : Texts, bm : {EmptyBitmap}, min_w : {0}, min_h : {0},
     x : {0}, y : {0}, value : {0},
     comments : {0}, split : {FALSE}]
    \cup [kind : {"raster"}, text : {<<>>}, bm : Rasters, min_w : {0}, min_h : {0},
          x : {0}, y : {0}, value : {0},
     comments : {0}, split : {FALSE}]
    \cup [kind : {"panel"}, text : {<<>>}, bm : Tiles, min_w : 0..MaxMin, min_h : 0..MaxMin,
          x : {0}, y : {0}, value : {0},
     comments : {0}, split : {FALSE}]
    \cup [kind : {"set"}, text : {<<>>}, bm : Tiles, min_w : {0}, min_h : {0},
          x : (0 - 1)..(MaxTileDim - 1), y : (0 - 1)..(MaxTileDim - 1), value : SetValues,
     comments : {0}, split : {FALSE}]
    \cup [kind : {"pbm"}, text : PbmFiles, bm : {EmptyBitmap}, min_w : {0}, min_h : {0},
          x : {0}, y : {0}, value : {0},
     comments : {0}, split : {FALSE}]
    \cup [kind : {"header"}, text : {<<>>}, bm : Tiles \cup RastersOf({<<MaxWidth, 1>>}), min_w : {0}, min_h : {0},
          x : {0}, y : {0}, value : {0},
          comments : 0..MaxComments, split : BOOLEAN]
    \cup [kind : {"name"}, text : IdStrings, bm : {EmptyBitmap}, min_w : {0}, min_h : {0},
          x : {0}, y : {0}, value : {0},
          comments : {0}, split : {FALSE}]

BitmapInit ==
    /\ bmInput \in BitmapInputs
    /\ bm = IF bmInput.kind \in {"text", "pbm", "name"} THEN NoResult ELSE Ok(bmInput.bm)
    /\ bmEnc = <<>>
    /\ bmBack = NoResult
    /\ panel = NoResult
    /\ bmOp = "new"
    /\ CacheIdle
    /\ SvgIdle
    /\ ExportIdle

\* ------------------------------------------------------------------------
\* SpecBitmap: one action per Bitmap operation
\* ------------------------------------------------------------------------
Codable == bmInput.kind \in {"text", "raster"} /\ bm.ok
           /\ bmOp \in {"new", "from_klayout_string"}

FromKlayoutString ==
    /\ bmInput.kind = "text" /\ bmOp = "new"
    /\ bm' = from_klayout_string(bmInput.text)
    /\ bmOp' = "from_klayout_string"
    /\ UNCHANGED <<bmInput, bmEnc, bmBack, panel>>
    /\ UNCHANGED cacheVars
    /\ UNCHANGED svgVars
    /\ UNCHANGED exportVars

ToKlayoutString ==
    /\ Codable
    /\ bmEnc' = to_klayout_string(bm.bm)
    /\ bmOp' = "to_klayout_string"
    /\ UNCHANGED <<bmInput, bm, bmBack, panel>>
    /\ UNCHANGED cacheVars
    /\ UNCHANGED svgVars
    /\ UNCHANGED exportVars

FromKlayoutStringBack ==
    /\ bmOp = "to_klayout_string"
    /\ bmBack' = from_klayout_string(bmEnc)
    /\ bmOp' = "klayout_round_trip"
    /\ UNCHANGED <<bmInput, bm, bmEnc, panel>>
    /\ UNCHANGED cacheVars
    /\ UNCHANGED svgVars
    /\ UNCHANGED exportVars

ToPbm ==
    /\ Codable
    /\ bmEnc' = to_pbm(bm.bm)
    /\ bmOp' = "to_pbm"
    /\ UNCHANGED <<bmInput, bm, bmBack, panel>>
    /\ UNCHANGED cacheVars
    /\ UNCHANGED svgVars
    /\ UNCHANGED exportVars

FromPbm ==
    /\ bmOp = "to_pbm"
    /\ bmBack' = from_pbm(bmEnc)
    /\ bmOp' = "pbm_round_trip"
    /\ UNCHANGED <<bmInput, bm, bmEnc, panel>>
    /\ UNCHANGED cacheVars
    /\ UNCHANGED svgVars
    /\ UNCHANGED exportVars

ToCompactFilename ==
    /\ Codable
    /\ bmEnc' = to_compact_filename(bm.bm)
    /\ bmOp' = "to_compact_filename"
    /\ UNCHANGED <<bmInput, bm, bmBack, panel>>
    /\ UNCHANGED cacheVars
    /\ UNCHANGED svgVars
    /\ UNCHANGED exportVars

FromCompactFilename ==
    /\ bmOp = "to_compact_filename"
    /\ bmBack' = from_compact_filename(bmEnc)
    /\ bmOp' = "compact_round_trip"
    /\ UNCHANGED <<bmInput, bm, bmEnc, panel>>
    /\ UNCHANGED cacheVars
    /\ UNCHANGED svgVars
    /\ UNCHANGED exportVars

Panelize ==
    /\ bmInput.kind = "panel" /\ bmOp = "new"
    /\ panel' = Ok(panelize(bm.bm, bmInput.min_w, bmInput.min_h))
    /\ bmOp' = "panelize"
    /\ UNCHANGED <<bmInput, bm, bmEnc, bmBack>>
    /\ UNCHANGED cacheVars
    /\ UNCHANGED svgVars
    /\ UNCHANGED exportVars

\* Bitmap.set on the panel or on the tile after panelize, flipping the first
\* or the last cell; a write reaches the other object only through a shared
\* bytearray
SetAfterPanelize ==
    /\ bmInput.kind = "panel" /\ bmOp = "panelize"
    /\ \E target \in {"tile", "panel"} :
         LET obj == IF target = "tile" THEN bm.bm ELSE panel.bm
             other == IF target = "tile" THEN panel.bm ELSE bm.bm
             shared == SharesStorage(bmInput.bm, bmInput.min_w, bmInput.min_h)
         IN  \E c \in IF obj.width = 0 \/ obj.height = 0 THEN {}
                      ELSE {<<0, 0>>, <<obj.width - 1, obj.height - 1>>} :
               LET r == set(obj, c[1], c[2], 1 - get(obj, c[1], c[2]))
                   seen == IF shared THEN [other EXCEPT !.data = r.bm.data] ELSE other
               IN  /\ r.ok
                   /\ bm' = Ok(IF target = "tile" THEN r.bm ELSE seen)
                   /\ panel' = Ok(IF target = "tile" THEN seen ELSE r.bm)
                   /\ bmOp' = IF target = "tile" THEN "set_tile" ELSE "set_panel"
    /\ UNCHANGED <<bmInput, bmEnc, bmBack>>
    /\ UNCHANGED cacheVars
    /\ UNCHANGED svgVars
    /\ UNCHANGED exportVars

\* Bitmap.from_pbm on a file that to_pbm did not write
FromPbmFile ==
    /\ bmInput.kind = "pbm" /\ bmOp = "new"
    /\ bm' = from_pbm(bmInput.text)
    /\ bmOp' = "from_pbm"
    /\ UNCHANGED <<bmInput, bmEnc, bmBack, panel>>
    /\ UNCHANGED cacheVars
    /\ UNCHANGED svgVars
    /\ UNCHANGED exportVars

\* Bitmap.from_pbm on a file whose header has another layout than to_pbm's
FromPbmHeader ==
    /\ bmInput.kind = "header" /\ bmOp = "new"
    /\ bmEnc' = PbmWithHeader(bm.bm, bmInput.comments, bmInput.split)
    /\ bmBack' = from_pbm(bmEnc')
    /\ bmOp' = "from_pbm_header"
    /\ UNCHANGED <<bmInput, bm, panel>>
    /\ UNCHANGED cacheVars
    /\ UNCHANGED svgVars
    /\ UNCHANGED exportVars

\* Bitmap.from_compact_filename on a string that to_compact_filename did not write
FromCompactFilenameId ==
    /\ bmInput.kind = "name" /\ bmOp = "new"
    /\ bm' = from_compact_filename(bmInput.text)
    /\ bmOp' = "from_compact_filename"
    /\ UNCHANGED <<bmInput, bmEnc, bmBack, panel>>
    /\ UNCHANGED cacheVars
    /\ UNCHANGED svgVars
    /\ UNCHANGED exportVars

\* Bitmap.set: the object is changed in place unless the assignment raises
Set ==
    /\ bmInput.kind = "set" /\ bmOp = "new"
    /\ LET r == set(bm.bm, bmInput.x, bmInput.y, bmInput.value)
       IN  /\ bm' = IF r.ok THEN r ELSE bm
           /\ bmOp' = IF r.ok THEN "set" ELSE "set_IndexError"
    /\ UNCHANGED <<bmInput, bmEnc, bmBack, panel>>
    /\ UNCHANGED cacheVars
    /\ UNCHANGED svgVars
    /\ UNCHANGED exportVars

BitmapNext ==
    \/ FromKlayoutString
    \/ ToKlayoutString
    \/ FromKlayoutStringBack
    \/ ToPbm
    \/ FromPbm
    \/ ToCompactFilename
    \/ FromCompactFilename
    \/ Panelize
    \/ SetAfterPanelize
    \/ FromPbmFile
    \/ FromPbmHeader
    \/ FromCompactFilenameId
    \/ Set

SpecBitmap == BitmapInit /\ [][BitmapNext]_vars

\* ------------------------------------------------------------------------
\* Claims about Bitmap
\* ------------------------------------------------------------------------
SameBitmap(a, b) == a.width = b.width /\ a.height = b.height /\ a.data = b.data

WellFormed(b) ==
    /\ Len(b.data) = b.width * b.height
    /\ \A i \in 1..Len(b.data) : b.data[i] \in {0, 1}

\* C3: content id round trip - from_compact_filename(to_compact_filename(r))
\* has the width, height and bits of r, for every well-formed raster r,
\* the 0x0 raster and rasters with a zero leading packed byte included.
C3_CompactRoundTrip ==
    (bmOp = "compact_round_trip" /\ WellFormed(bm.bm))
        => (bmBack.ok /\ SameBitmap(bmBack.bm, bm.bm))

C3_Witness ==
    /\ bmOp = "compact_round_trip"
    /\ bm.bm.width = 9 /\ bm.bm.height = 1
    /\ \A i \in 1..8 : bm.bm.data[i] = 0
    /\ bm.bm.data[9] = 1
    /\ bmBack.ok /\ bmBack.bm.data[9] = 1

\* C4: pattern round trip - for every valid pattern text p,
\* decode(encode(decode(p))) equals decode(p) in width, height and bits.
C4_PatternRoundTrip ==
    (bmOp = "klayout_round_trip" /\ bmInput.kind = "text")
        => (bmBack.ok /\ SameBitmap(bmBack.bm, bm.bm))

C4_Witness ==
    /\ bmOp = "klayout_round_trip" /\ bmInput.kind = "text"
    /\ bmInput.text = <<" ", "*", "\n", "\n", ".">>
    /\ bm.bm.width = 1 /\ bm.bm.height = 2 /\ bm.bm.data = <<1, 0>>
    /\ bmEnc = <<"*", "\n", ".">>
    /\ bmBack.ok

\* C5: binary raster round trip - from_pbm(to_pbm(r)) has the width, height
\* and bits of r for every raster with width > 0 and height > 0 (widths that
\* are no multiple of 8 included) and for the 0x0 raster.
C5_PbmRoundTrip ==
    (/\ bmOp = "pbm_round_trip"
     /\ WellFormed(bm.bm)
     /\ \/ (bm.bm.width > 0 /\ bm.bm.height > 0)
        \/ (bm.bm.width = 0 /\ bm.bm.height = 0))
        => (bmBack.ok /\ SameBitmap(bmBack.bm, bm.bm))

C5_Witness ==
    /\ bmOp = "pbm_round_trip"
    /\ bm.bm.width = 9 /\ bm.bm.height = 1
    /\ bm.bm.data = <<0, 0, 0, 0, 1, 0, 1, 0, 1>>
    /\ bmEnc = <<80, 52, 10, 57, 32, 49, 10, 10, 128>>
    /\ bmBack.ok

\* C6: panelization law - for a non-empty tile and minW, minH >= 1 the panel
\* is ceil(minW/w)*w wide and ceil(minH/h)*h high (the smallest multiples of
\* the tile size that cover the minimum) and panel.get(x, y) equals
\* tile.get(x mod w, y mod h); for an empty tile the panel is the 0x0 raster.
IsCeilMultiple(p, m, t) == p % t = 0 /\ p >= m /\ p - t < m

C6_PanelizationLaw ==
    (bmOp = "panelize" /\ bmInput.min_w >= 1 /\ bmInput.min_h >= 1)
        => LET tile == bm.bm
               p == panel.bm
           IN  IF tile.width = 0 \/ tile.height = 0
               THEN p = EmptyBitmap
               ELSE /\ IsCeilMultiple(p.width, bmInput.min_w, tile.width)
                    /\ IsCeilMultiple(p.height, bmInput.min_h, tile.height)
                    /\ Len(p.data) = p.width * p.height
                    /\ \A x \in 0..(p.width - 1) : \A y \in 0..(p.height - 1) :
                          get(p, x, y) = get(tile, x % tile.width, y % tile.height)

C6_Witness ==
    /\ bmOp = "panelize"
    /\ bmInput.min_w = 4 /\ bmInput.min_h = 4
    /\ bm.bm.width = 3 /\ bm.bm.height = 3
    /\ bm.bm.data = <<1, 0, 0, 0, 1, 0, 0, 0, 1>>
    /\ panel.bm.width = 6 /\ panel.bm.height = 6
    /\ get(panel.bm, 4, 4) = 1 /\ get(panel.bm, 5, 4) = 0

\* ------------------------------------------------------------------------
\* Claims about pattern-text decoding
\* ------------------------------------------------------------------------
\* the positions of a line that hold something other than whitespace
Ink(l) == {i \in 1..Len(l) : l[i] \notin StrWs}

MinOf(S) == CHOOSE i \in S : \A j \in S : i <= j

MaxOf(S) == CHOOSE i \in S : \A j \in S : i >= j

\* a line without the whitespace around it
Trimmed(l) == IF Ink(l) = {} THEN <<>> ELSE SubSeq(l, MinOf(Ink(l)), MaxOf(Ink(l)))

\* the indices of the lines of p that are retained (not blank)
Retained(p) == {i \in 1..Len(splitlines(p)) : Ink(splitlines(p)[i]) # {}}

FirstRetained(p) == Trimmed(splitlines(p)[MinOf(Retained(p))])

BadPattern(p) ==
    \E i \in Retained(p) :
        LET t == Trimmed(splitlines(p)[i])
        IN  \/ Len(t) # Len(FirstRetained(p))
            \/ \E k \in 1..Len(t) : t[k] \notin {"*", "."}

Decoded == bmInput.kind = "text" /\ bmOp # "new"

\* C11: pattern-text decoding fails with the format error (ValueError) and
\* returns no raster exactly when some retained line differs in length from
\* the first retained line or holds a character other than '*' and '.'.
C11_PatternFormatError ==
    Decoded =>
        /\ BadPattern(bmInput.text) <=> (~bm.ok /\ bm.err = "ValueError")
        /\ ~bm.ok => bm.bm = EmptyBitmap
        /\ bm.ok <=> ~BadPattern(bmInput.text)

C11_Witness ==
    /\ Decoded
    /\ bmInput.text = <<"*", "*", ".", "\n", "*", "*", "*", "*">>
    /\ ~bm.ok /\ bm.err = "ValueError"

\* C16: decoding ignores blank lines and the whitespace around each line -
\* width is the length of the first retained line after trimming, height the
\* number of retained lines; a text without retained line decodes to the 0x0
\* raster with empty bits, which encodes back to the empty string.
C16_BlankLinesIgnored ==
    /\ (Decoded /\ bm.ok) =>
           /\ bm.bm.height = Cardinality(Retained(bmInput.text))
           /\ bm.bm.width = IF Retained(bmInput.text) = {} THEN 0
                             ELSE Len(FirstRetained(bmInput.text))
    /\ (Decoded /\ Retained(bmInput.text) = {}) => (bm.ok /\ bm.bm = EmptyBitmap)
    /\ (Decoded /\ bmOp = "to_klayout_string" /\ bm.bm = EmptyBitmap) => bmEnc = <<>>

C16_Witness ==
    /\ Decoded /\ bmOp = "to_klayout_string"
    /\ bmInput.text = <<" ", "\n", "\n", " ">>
    /\ bm.ok /\ bm.bm = EmptyBitmap
    /\ bmEnc = <<>>

\* ------------------------------------------------------------------------
\* Claims about the binary raster reader
\* ------------------------------------------------------------------------
\* the first line of a file, without its line end and surrounding whitespace
FirstLineToken(f) ==
    LET k == IndexIn(f, {NL}, 1)
        line == SubSeq(f, 1, IF k = 0 THEN Len(f) ELSE k - 1)
        ink == {i \in 1..Len(line) : line[i] \notin ByteWs}
    IN  IF ink = {} THEN <<>> ELSE SubSeq(line, MinOf(ink), MaxOf(ink))

\* C15: reading a binary raster file whose first line is not the magic token
\* 'P4' fails with the format error (ValueError) whatever follows the first
\* line, and returns no raster.
C15_UnsupportedMagic ==
    (bmInput.kind = "pbm" /\ bmOp = "from_pbm" /\ FirstLineToken(bmInput.text) # <<80, 52>>)
        => (~bm.ok /\ bm.err = "ValueError" /\ bm.bm = EmptyBitmap)

C15_Witness ==
    /\ bmInput.kind = "pbm" /\ bmOp = "from_pbm"
    /\ bmInput.text = <<80, 49, NL, 49, 32, 49, NL>>
    /\ ~bm.ok /\ bm.err = "ValueError"

\* ------------------------------------------------------------------------
\* Claims about the content id and the accessors
\* ------------------------------------------------------------------------
\* the well-formed rasters that hold the bits of b under other dimensions
Reshapes(b) ==
    {[width |-> d[1], height |-> d[2], data |-> b.data] :
        d \in {e \in (0..MaxBits) \X (0..MaxBits) : e[1] * e[2] = Len(b.data)}}

\* the rasters that differ from b in exactly one bit
BitFlips(b) ==
    {[b EXCEPT !.data[i] = 1 - @] : i \in 1..Len(b.data)}

\* the rasters an id is compared with: all small ones, the reshaped ones
\* and the ones a single bit away
ComparedWith(b) ==
    RastersOf(RasterDims(MaxTileDim, 2)) \cup Reshapes(b) \cup BitFlips(b)

\* C14: the content id is injective - two well-formed rasters get the same
\* id if and only if they have the same width, height and bits; a WxH and
\* an HxW raster with the same bit sequence get different ids.
C14_ContentIdInjective ==
    (bmOp = "to_compact_filename" /\ WellFormed(bm.bm)) =>
        \A r \in ComparedWith(bm.bm) :
            (to_compact_filename(r) = bmEnc) <=> SameBitmap(r, bm.bm)

C14_Witness ==
    /\ bmOp = "to_compact_filename"
    /\ bm.bm.width = 2 /\ bm.bm.height = 3
    /\ bm.bm.data = <<1, 0, 0, 1, 1, 0>>
    /\ bmEnc # to_compact_filename([width |-> 3, height |-> 2, data |-> bm.bm.data])
    /\ bmEnc = to_compact_filename(bm.bm)

\* C17: for in-range coordinates, after set(x, y, v) get(x, y) is 1 if v is
\* truthy and 0 otherwise, and the width, the height and every other cell
\* are unchanged.
InRange(b, x, y) == 0 <= x /\ x < b.width /\ 0 <= y /\ y < b.height

C17_SetGetFrame ==
    (bmInput.kind = "set" /\ bmOp # "new" /\ InRange(bmInput.bm, bmInput.x, bmInput.y)) =>
        /\ bmOp = "set"
        /\ get(bm.bm, bmInput.x, bmInput.y) = (IF bmInput.value # 0 THEN 1 ELSE 0)
        /\ bm.bm.width = bmInput.bm.width
        /\ bm.bm.height = bmInput.bm.height
        /\ Len(bm.bm.data) = Len(bmInput.bm.data)
        /\ \A x \in 0..(bm.bm.width - 1) : \A y \in 0..(bm.bm.height - 1) :
              (<<x, y>> # <<bmInput.x, bmInput.y>>)
                  => get(bm.bm, x, y) = get(bmInput.bm, x, y)

C17_Witness ==
    /\ bmInput.kind = "set" /\ bmOp = "set"
    /\ bmInput.bm = [width |-> 3, height |-> 2, data |-> <<0, 0, 0, 0, 0, 0>>]
    /\ bmInput.x = 1 /\ bmInput.y = 0 /\ bmInput.value = 1
    /\ bm.bm.data = <<0, 1, 0, 0, 0, 0>>

\* ------------------------------------------------------------------------
\* Claims about cancellation and about the transforms of the walk
\* ------------------------------------------------------------------------
\* a command step of a path is about to be made
AtCommandStep == w.stage \in {"loop", "spin"} /\ w.i < Len(w.tokens)

\* C12: cancellation of parsing - with a progress reporter the cancellation
\* check is consulted before every command step of every path, and once it
\* signals cancellation the parse has ended with the cancelled outcome and
\* returns nothing, whatever paths were completed before.
C12_CancelReturnsNothing ==
    /\ (AtCommandStep /\ svgIn.reporter /\ svgOut = "running") => ENABLED Step(TRUE)
    /\ svgOut = "ExportCancelledError" => (w.stage = "done" /\ ~ENABLED SvgNext)
    /\ svgOut = "return" => w.stage = "done"

C12_Witness ==
    /\ svgOut = "ExportCancelledError"
    /\ svgIn.reporter
    /\ w.node = 3 /\ w.i = 3
    /\ Len(paths) = 1

\* the transform a node carries itself
OwnTransform(n) ==
    IF svgIn.nodes[n].transform = <<>> THEN QIdentity
    ELSE parse_svg_transform(svgIn.nodes[n].transform).t

\* the nodes from the root down to n
RECURSIVE Chain(_)
Chain(n) ==
    IF svgIn.nodes[n].parent = 0 THEN <<n>>
    ELSE Append(Chain(svgIn.nodes[n].parent), n)

RECURSIVE ProductOf(_)
ProductOf(ns) ==
    IF ns = <<>> THEN QIdentity ELSE QMul(OwnTransform(ns[1]), ProductOf(Tail(ns)))

\* the products of the transforms of the chain of n, each taken once, in
\* any order of the factors
ChainProducts(n) ==
    LET c == Chain(n)
        orders == {f \in [1..Len(c) -> 1..Len(c)] :
                      \A i, j \in 1..Len(c) : f[i] = f[j] => i = j}
    IN  {ProductOf([i \in 1..Len(c) |-> c[f[i]]]) : f \in orders}

RawPath(n) ==
    [k \in 1..Len(svgIn.nodes[n].groups) |-> SegmentOf(svgIn.nodes[n].groups[k])]

\* C20: the geometry of a path node is its path mapped once by a product of
\* exactly the transforms on the chain from the root to the node - no
\* transform of a sibling, of a sibling's descendant or of the node's own
\* children enters it, and a walked child leaves the transform of the next
\* child as it was.
C20_NoTransformLeak ==
    (svgOut = "return" /\ \A k \in 1..Len(PathNodes) : AllAbs(svgIn.nodes[PathNodes[k]].groups))
        => /\ Len(paths) = Len(PathNodes)
           /\ \A k \in 1..Len(PathNodes) :
                 \E T \in ChainProducts(PathNodes[k]) :
                     paths[k] = QMapPath(T, RawPath(PathNodes[k]))

C20_Witness ==
    /\ svgOut = "return"
    /\ Len(svgIn.nodes) = 4
    /\ svgIn.nodes[3].parent = 2
    /\ svgIn.nodes[2].transform = <<Op("translate", <<10, 20>>)>>
    /\ svgIn.nodes[3].transform = <<Op("scale", <<2>>)>>
    /\ svgIn.nodes[4].transform = <<Op("translate", <<3>>)>>
    /\ paths[1] = <<MoveTo(<<10, 20>>), LineTo(<<15, 25>>)>>
    /\ paths[3] = <<MoveTo(<<3, 0>>), LineTo(<<8, 5>>)>>

\* ------------------------------------------------------------------------
\* Claims about gateway failures and about the persisted artifact
\* ------------------------------------------------------------------------
GatewayFailures == {"missing", "exit_nonzero"}

\* C13: gateway failures are never silently ignored - when mkbitmap or
\* potrace exits with a non-zero status or its executable is missing, the
\* request raises that error to the caller, potrace is not run after a
\* failed mkbitmap, and the request returns no paths.
C13_GatewayFailurePropagates ==
    \A p \in SeqProcs :
        /\ call[p].pre \notin GatewayFailures
        /\ call[p].trace \in GatewayFailures => pc[p] = "tracing"
        /\ \A i \in 1..Len(calls[p]) :
              LET c == calls[p][i]
              IN  /\ c.pre \in GatewayFailures =>
                        /\ c.out = "raise" /\ c.err = GatewayError(c.pre)
                        /\ c.trace = "none"
                        /\ c.value = NoValue
                  /\ c.trace \in GatewayFailures =>
                        /\ c.out = "raise" /\ c.err = GatewayError(c.trace)
                        /\ c.value = NoValue

C13_Witness ==
    \E p \in SeqProcs :
        /\ Len(calls[p]) = 2
        /\ calls[p][1].pre = "exit_nonzero" /\ calls[p][1].trace = "none"
        /\ calls[p][1].out = "raise" /\ calls[p][1].err = "CalledProcessError"
        /\ calls[p][2].pre = "ok" /\ calls[p][2].trace = "missing"
        /\ calls[p][2].out = "raise" /\ calls[p][2].err = "FileNotFoundError"

\* C18: a persisted vector artifact is taken as a cache hit only if the
\* gateway run that wrote it completed successfully; after a run that failed
\* once it had begun writing the file, a later request does not take the
\* file as a hit.
C18_HitOnlyOnCompleteArtifact ==
    \A p \in SeqProcs :
        /\ call[p].served = "disk" => (call[p].seen = "complete" /\ call[p].id \in gwOk)
        /\ \A i \in 1..Len(calls[p]) :
              calls[p][i].served = "disk" =>
                  (calls[p][i].seen = "complete" /\ calls[p][i].id \in gwOk)

\* C19: when two processes request the same key at the same time, neither
\* takes the cache-hit path on an artifact the other is still writing, and
\* every request that returns gives the paths of the complete artifact.
C19_NoHitOnArtifactBeingWritten ==
    /\ \A p \in Procs : \A q \in Procs \ {p} :
          (/\ pc[q] = "tracing" /\ pc[p] = "convert"
           /\ call[p].id = call[q].id /\ call[p].served = "disk")
              => call[p].seen = "complete"
    /\ \A p \in Procs : \A i \in 1..Len(calls[p]) :
          (calls[p][i].out = "return" /\ calls[p][i].served # "memory")
              => calls[p][i].value.painter_paths = PathsOf(calls[p][i].id)

\* ------------------------------------------------------------------------
\* Claims about the command loop
\* ------------------------------------------------------------------------
\* the input is one path element without transform, written with blanks
\* between all letters and numbers
IsSinglePath ==
    /\ Len(svgIn.nodes) = 1
    /\ svgIn.nodes[1].tag = "path"
    /\ svgIn.nodes[1].transform = <<>>
    /\ svgIn.nodes[1].d = PathData(svgIn.nodes[1].groups, "spaced")

\* C21: parsing a command string terminates when no cancellation is
\* signalled, because every iteration of the command loop consumes at least
\* one token ("spin": an iteration has consumed none and the loop repeats it
\* without end).
C21_EveryIterationConsumesAToken ==
    w.stage # "spin"

\* C22: every malformed parser input ends in the parser's one error kind
\* (the ValueError raised for an unsupported transform) and in no other.
C22_OnlyParseError ==
    svgOut \in {"idle", "running", "return", "ExportCancelledError", "ValueError"}

\* the command a group without letter repeats
Active(g, active) ==
    IF g.cmd = "" THEN active
    ELSE IF g.cmd = "M" THEN "L"
    ELSE IF g.cmd = "m" THEN "l"
    ELSE g.cmd

\* the numbers a group must hold: a pair, three pairs or nothing
RECURSIVE GroupsComplete(_, _)
GroupsComplete(gs, active) ==
    IF gs = <<>> THEN TRUE
    ELSE LET g == gs[1]
             c == IF g.cmd = "" THEN active ELSE g.cmd
         IN  /\ \/ c \in {"M", "m", "L", "l"} /\ Len(g.nums) = 2
                \/ c \in {"C", "c"} /\ Len(g.nums) = 6
                \/ c \in {"Z", "z"} /\ g.cmd # "" /\ g.nums = <<>>
             /\ GroupsComplete(Tail(gs), Active(g, active))

\* the segments the grammar gives the groups, from current point cur and
\* subpath start st
RECURSIVE Segments(_, _, _, _)
Segments(gs, active, cur, st) ==
    IF gs = <<>> THEN <<>>
    ELSE LET g == gs[1]
             c == IF g.cmd = "" THEN active ELSE g.cmd
             rel == c \in {"m", "l", "c"}
             P(j) == IF rel THEN <<cur[1] + g.nums[j], cur[2] + g.nums[j + 1]>>
                     ELSE <<g.nums[j], g.nums[j + 1]>>
             next == Active(g, active)
         IN  IF c \in {"M", "m"}
             THEN <<MoveTo(P(1))>> \o Segments(Tail(gs), next, P(1), P(1))
             ELSE IF c \in {"L", "l"}
             THEN <<LineTo(P(1))>> \o Segments(Tail(gs), next, P(1), st)
             ELSE IF c \in {"C", "c"}
             THEN <<CubicTo(P(1), P(3), P(5))>> \o Segments(Tail(gs), next, P(5), st)
             ELSE <<Close>> \o Segments(Tail(gs), next, st, st)

HasRepeat(gs) == \E k \in 2..Len(gs) : gs[k].cmd = ""

HasClose(gs) == \E k \in 1..Len(gs) : gs[k].cmd \in {"Z", "z"}

\* C23: implicit repeat - pairs after the first pair of M are absolute
\* LineTo, pairs after the first pair of m are LineTo relative to the
\* current point, pairs (triples of pairs) after L, l, C, c repeat that
\* command; only the first pair after M/m is a MoveTo.
C23_ImplicitRepeat ==
    (/\ IsSinglePath
     /\ HasRepeat(svgIn.nodes[1].groups)
     /\ GroupsComplete(svgIn.nodes[1].groups, NoCmd))
        => /\ svgOut \in {"running", "return", "ExportCancelledError"}
           /\ w.stage # "spin"
           /\ svgOut = "return" =>
                 paths = <<Segments(svgIn.nodes[1].groups, NoCmd, <<0, 0>>, <<0, 0>>)>>

C23_Witness ==
    /\ IsSinglePath
    /\ svgIn.nodes[1].groups = <<G("m", <<1, 1>>), G("", <<2, 2>>), G("", <<3, 4>>)>>
    /\ svgOut = "return"
    /\ paths = <<<<MoveTo(<<1, 1>>), LineTo(<<3, 3>>), LineTo(<<6, 7>>)>>>>

\* the point of the most recent MoveTo of a path, (0, 0) when there is none
RECURSIVE LastMovePoint(_)
LastMovePoint(path) ==
    IF path = <<>> THEN <<0, 0>>
    ELSE IF path[Len(path)].op = "MoveTo" THEN path[Len(path)].pts[1]
    ELSE LastMovePoint(SubSeq(path, 1, Len(path) - 1))

\* C24: Z/z emits Close and resets the current point to the start of the
\* current subpath (the point of the most recent MoveTo), so that a relative
\* command after Z is offset from that start; only M/m changes the start.
C24_CloseResetsCurrentPoint ==
    /\ w.stage \in {"loop", "spin"} =>
          /\ w.start = LastMovePoint(w.path)
          /\ (w.path # <<>> /\ w.path[Len(w.path)] = Close) => w.cur = w.start
    /\ (/\ IsSinglePath
        /\ HasClose(svgIn.nodes[1].groups)
        /\ GroupsComplete(svgIn.nodes[1].groups, NoCmd)
        /\ svgOut = "return")
           => paths = <<Segments(svgIn.nodes[1].groups, NoCmd, <<0, 0>>, <<0, 0>>)>>

C24_Witness ==
    /\ IsSinglePath
    /\ svgIn.nodes[1].groups =
          <<G("M", <<10, 0>>), G("l", <<5, 5>>), G("Z", <<>>), G("l", <<5, 5>>)>>
    /\ svgOut = "return"
    /\ paths = <<<<MoveTo(<<10, 0>>), LineTo(<<15, 5>>), Close, LineTo(<<15, 5>>)>>>>

\* ------------------------------------------------------------------------
\* Claims about the raster invariant, panelize storage, PBM headers,
\* malformed content ids and coordinates out of range
\* ------------------------------------------------------------------------
\* the raster invariant: one bit per cell, and no cell without both dimensions
RasterInvariant(b) ==
    /\ WellFormed(b)
    /\ b.width >= 0 /\ b.height >= 0
    /\ (b.width = 0 \/ b.height = 0) => SameBitmap(b, EmptyBitmap)

\* C25: every raster that from_klayout_string, from_pbm,
\* from_compact_filename or panelize returns, and every raster after an
\* in-range set, has width * height bits in {0, 1}, dimensions >= 0, and is
\* the 0x0 raster whenever its width or its height is 0 - panelize with
\* min_w = 0 or min_h = 0 on a non-empty tile included.
C25_RasterInvariant ==
    /\ (bmInput.kind \in {"text", "pbm"} /\ bm.ok) => RasterInvariant(bm.bm)
    /\ (bmBack.ok /\ RasterInvariant(bm.bm)) => RasterInvariant(bmBack.bm)
    /\ (bmOp = "panelize" /\ RasterInvariant(bmInput.bm)) => RasterInvariant(panel.bm)
    /\ (bmOp = "set" /\ RasterInvariant(bmInput.bm)
        /\ InRange(bmInput.bm, bmInput.x, bmInput.y)) => RasterInvariant(bm.bm)

C27_PbmHeaderLayouts ==
    bmOp = "from_pbm_header" =>
        LET plain == from_pbm(PbmWithHeader(bmInput.bm, 0, FALSE))
        IN  /\ plain.ok /\ bmBack.ok
            /\ SameBitmap(bmBack.bm, plain.bm)
            /\ SameBitmap(bmBack.bm, bmInput.bm)

C27_Witness ==
    /\ bmOp = "from_pbm_header"
    /\ bmInput.comments = MaxComments /\ bmInput.split
    /\ bmInput.bm = [width |-> 3, height |-> 2, data |-> <<1, 0, 1, 0, 1, 0>>]
    /\ bmEnc = <<80, 52, NL, 35, 32, 99, NL>> \o CommentLines(MaxComments - 1)
               \o <<51, NL, 50, NL, 160, 64>>
    /\ bmBack.ok /\ bmBack.bm = bmInput.bm

\* the parts of an id between its delimiters, however many
RECURSIVE PartsOf(_)
PartsOf(s) ==
    LET k == IndexIn(s, {"_"}, 1)
    IN  IF k = 0 THEN <<s>> ELSE <<SubSeq(s, 1, k - 1)>> \o PartsOf(Tail0(s, k))

\* the three kinds of malformed id: not three parts, a part with a character
\* outside 0-9a-z, a data segment with fewer than width * height bits
Malformed(s) ==
    LET parts == PartsOf(s)
    IN  \/ Len(parts) # 3
        \/ \E i \in 1..Len(parts) : ~IsBase36(parts[i])
        \/ /\ IsBase36Bytes(parts[3])
           /\ 8 * Len(base36_to_bytes(parts[3]))
                < base36_to_int(parts[1]) * base36_to_int(parts[2])

\* C28: decoding a malformed content id - not exactly three parts, a part
\* that is not base36 over 0-9a-z, a data segment with fewer than
\* width * height bits - raises the decoder's one error kind (ValueError)
\* and no other, and returns no raster.
C28_MalformedIdError ==
    (bmInput.kind = "name" /\ bmOp = "from_compact_filename" /\ Malformed(bmInput.text)) =>
        (~bm.ok /\ bm.err = "ValueError")

C28_Witness ==
    /\ bmInput.kind = "name" /\ bmOp = "from_compact_filename"
    /\ bmInput.text = <<"3", "_", "3", "_", "2", "s">>
    /\ Malformed(bmInput.text)
    /\ decode_compact_filename(bmInput.text).err = "IndexError"
    /\ ~bm.ok /\ bm.err = "ValueError"

\* C29: set with x outside [0, width) or y outside [0, height) fails with a
\* bounds error and modifies no cell - set(width, 0, v) does not write cell
\* (0, 1) and negative coordinates do not wrap around.
C29_OutOfRangeFailsFast ==
    (bmInput.kind = "set" /\ bmOp # "new" /\ ~InRange(bmInput.bm, bmInput.x, bmInput.y)) =>
        (bmOp = "set_IndexError" /\ bm.bm = bmInput.bm)

\* ------------------------------------------------------------------------
\* SpecExport: VectorFileExporter.paint_layers (vector_file_exporter.py)
\* ------------------------------------------------------------------------
\* the kinds of shape a layer iterator yields; an edge stands for every kind
\* that is neither box, polygon, path nor text
ShapeKinds == {"box", "polygon", "path", "text", "edge"}

\* the return value of draw_shape: False for a shape it does not draw
draw_shape(kind) == kind \in {"box", "polygon", "path", "text"}

\* the value of new_page_needed at the end of a layer
NewPageNeeded(found_shapes_on_layer, found_shapes, layer_output_style) ==
    IF found_shapes_on_layer /\ layer_output_style = "page_per_layer"
    THEN found_shapes
    ELSE FALSE

\* export() with preview_mode = False: the painter has begun the first page
ExportInit ==
    /\ exIn \in [layer_output_style : {"single_page", "page_per_layer"}, num_layers : 0..MaxLayers,
                 reporter : BOOLEAN]
    /\ ex = [IdleExport EXCEPT !.stage = "layer"]
    /\ pages = <<<<>>>>
    /\ BitmapIdle
    /\ CacheIdle
    /\ SvgIdle

\* for lyr in self.design_info.layer_indexes: up to the shape iterator
NextLayer ==
    /\ ex.stage = "layer" /\ ex.lyr < exIn.num_layers
    /\ ex' = [ex EXCEPT !.stage = "shapes", !.lyr = @ + 1, !.shapes = 0,
                        !.found_shapes_on_layer = FALSE]
    /\ UNCHANGED <<exIn, pages>>
    /\ UNCHANGED bmVars
    /\ UNCHANGED cacheVars
    /\ UNCHANGED svgVars

\* one iteration of `while not iter.at_end()` for a shape of the given kind;
\* valid is the result of is_valid_text, canceled that of was_canceled
IterShape(kind, valid, canceled) ==
    /\ ex.stage = "shapes" /\ ex.shapes < MaxShapes
    /\ canceled => exIn.reporter
    /\ LET paged == IF ex.new_page_needed THEN Append(pages, <<>>) ELSE pages
           called == kind # "text" \/ valid
           found_shapes == IF called THEN draw_shape(kind) ELSE ex.found_shapes
       IN  /\ pages' = IF called /\ draw_shape(kind)
                       THEN [paged EXCEPT ![Len(paged)] = Append(@, ex.lyr)]
                       ELSE paged
           /\ ex' = [ex EXCEPT !.new_page_needed = FALSE,
                               !.found_shapes = found_shapes,
                               !.found_shapes_on_layer =
                                    IF called THEN @ \/ found_shapes ELSE @,
                               !.shapes = @ + 1,
                               !.stage = IF canceled THEN "ExportCancelledError" ELSE @]
    /\ UNCHANGED exIn
    /\ UNCHANGED bmVars
    /\ UNCHANGED cacheVars
    /\ UNCHANGED svgVars

\* iter.at_end(): the end of the body of the for loop
EndLayer ==
    /\ ex.stage = "shapes"
    /\ ex' = [ex EXCEPT !.stage = "layer",
                        !.new_page_needed =
                             NewPageNeeded(ex.found_shapes_on_layer, ex.found_shapes,
                                           exIn.layer_output_style)]
    /\ UNCHANGED <<exIn, pages>>
    /\ UNCHANGED bmVars
    /\ UNCHANGED cacheVars
    /\ UNCHANGED svgVars

\* the for loop is exhausted: paint_layers returns
ReturnFromPaintLayers ==
    /\ ex.stage = "layer" /\ ex.lyr = exIn.num_layers
    /\ ex' = [ex EXCEPT !.stage = "return"]
    /\ UNCHANGED <<exIn, pages>>
    /\ UNCHANGED bmVars
    /\ UNCHANGED cacheVars
    /\ UNCHANGED svgVars

ExportNext ==
    \/ NextLayer
    \/ \E kind \in ShapeKinds : \E valid \in BOOLEAN : \E canceled \in BOOLEAN :
          IterShape(kind, valid, canceled)
    \/ EndLayer
    \/ ReturnFromPaintLayers

SpecExport == ExportInit /\ [][ExportNext]_vars

\* the layers that drew a shape, and the pages on which a layer drew
DrawingLayers == UNION {{pages[p][k] : k \in 1..Len(pages[p])} : p \in 1..Len(pages)}

PagesOf(l) == {p \in 1..Len(pages) : \E k \in 1..Len(pages[p]) : pages[p][k] = l}

\* C30: in page-per-layer export no page holds shapes of two layers - from
\* the last shape drawn by a layer that drew one to the first shape drawn by
\* the next such layer exactly one new page is started, whatever the last
\* shape iterated on the earlier layer was.
C30_OneLayerPerPage ==
    exIn.layer_output_style = "page_per_layer" =>
        \A a \in DrawingLayers : \A b \in DrawingLayers :
            (a < b /\ ~\E c \in DrawingLayers : a < c /\ c < b) =>
                \A p \in PagesOf(a) : \A q \in PagesOf(b) : q = p + 1

====
